---- MODULE Spec2Model ----
(***************************************************************************)
(* Device session state machine of joulescope_ui/devices/jsdrv/js220.py.   *)
(*                                                                         *)
(* Two threads are modelled: the control thread (the pubsub / UI thread    *)
(* that calls _open_req, _close_req and the settings callback) and the     *)
(* worker threads started by _open_req, each running Js220._run.           *)
(* A thread object lives in a slot; a slot is reused once its thread has   *)
(* been joined, so the number of slots bounds the threads that can exist   *)
(* at the same time, not the number of opens.                              *)
(*                                                                         *)
(* The statistics callback _on_stats runs on the thread that delivers the  *)
(* driver's statistics; it is modelled in two steps around its read of     *)
(* the baseline. Spec is the session with its settings callback;           *)
(* SpecStats adds the statistics and the accumulator action, SpecRange     *)
(* the changes that end in the current-range policy.                       *)
(*                                                                         *)
(* The publish/subscribe bus is taken as delivering a publish to the       *)
(* retained value of its topic at once: settings/state is the variable     *)
(* state, the capability list is the variable capability.                  *)
(***************************************************************************)
EXTENDS Integers, Sequences, FiniteSets, TLC

\* ------------------------------------------------------------------ bounds

\* Thread slots: how many thread objects may exist at the same time.
NThreads == 2
\* Commands the settings callback may have pending in the queue.
MaxQueue == 2
\* Firmware versions range over 1..MaxVer.
MaxVer == 2
\* Raw accumulator values and sample counts of a statistics value: 0..MaxRaw.
MaxRaw == 1
\* Largest sample index, sample rate and decimation factor of signal data.
MaxFwd == 3
\* Largest numerator and denominator of a TimeMap's scale.
MaxScale == 2
\* Largest distance, in time64 units or pixels, of a converted value from
\* the anchor.
MaxSpan == 3

\* --------------------------------------------------------------- constants

\* settings/state option values (_SETTINGS_OBJ_ONLY['state']['options']).
ST_CLOSED == 0
ST_OPENING == 1
ST_OPEN == 2
ST_CLOSING == 3

\* The fixed full rate divided by statistics_frequency.
STATS_FULL_RATE == 1000000

\* self._thread is None
None == 0

Slots == 1..NThreads

\* _SIGNALS: signal id -> control topic (topics[0]).
SignalIds == {"i", "v", "p", "r", "0", "1", "2", "3", "T"}

SignalCtrl(id) ==
    CASE id = "i" -> "s/i/ctrl"
      [] id = "v" -> "s/v/ctrl"
      [] id = "p" -> "s/p/ctrl"
      [] id = "r" -> "s/i/range/ctrl"
      [] id = "0" -> "s/gpi/0/ctrl"
      [] id = "1" -> "s/gpi/1/ctrl"
      [] id = "2" -> "s/gpi/2/ctrl"
      [] id = "3" -> "s/gpi/3/ctrl"
      [] id = "T" -> "s/gpi/7/ctrl"

\* Registers written with a name ('auto', 'manual', 'off', 'fpga_dev',
\* 'update1') instead of a number.
ModeRegisters == {"s/i/range/mode", "s/v/range/mode", "s/dbg/mode", "h/!reset"}

\* The hardware register topics the modelled code writes.
Registers ==
    {SignalCtrl(id) : id \in SignalIds}
        \cup {"s/stats/ctrl", "s/stats/scnt", "h/fs",
              "s/gpo/+/!set", "s/gpo/+/!clr", "s/gpo/+/!value",
              "s/i/range/select", "s/i/range/min", "s/i/range/max",
              "s/v/range/select", "c/trigger/dir", "c/gpio/vref"}
        \cup ModeRegisters

\* Register contents after driver.open(path, 'restore'): numbers in the
\* numeric registers, a name in the mode registers.
RegsRestored ==
    [r \in Registers |-> IF r \in ModeRegisters THEN "default" ELSE 0]

Versions == 1..MaxVer

\* release.release_get / release_to_segments: a failure to fetch or parse,
\* or the versions of the two segments.
ReleaseFail == [ok |-> FALSE, ctrl_app |-> 0, fpga |-> 0]

Releases ==
    {ReleaseFail} \cup
    {[ok |-> TRUE, ctrl_app |-> c, fpga |-> f] : c \in Versions, f \in Versions}

\* self._statistics_offsets is None
NoOffsets == <<>>
\* No statistics value.
NoSample == <<>>
\* No signal data was delivered yet.
NoEvent == <<>>
\* No firmware check was recorded.
NoCheck == <<>>
\* No undo entry for accum_clear is held.
NoUndo == <<>>

\* The value None of firmware_available.
NoVersions == <<<<0, 0, 0>>, <<0, 0, 0>>>>
FwNull == [update |-> FALSE, ctrl_app |-> NoVersions, fpga |-> NoVersions]

VARIABLES
    thread,                 \* self._thread: None or the slot of the thread object
    quit,                   \* self._quit
    queue,                  \* self._queue
    driver_device_open,     \* self._driver_device_open
    firmware_available,     \* self.firmware_available
    target_power_app,       \* self._target_power_app
    target_power,           \* self.target_power (setting, 0 or 1)
    current_range,          \* self.current_range (setting, -1 is auto)
    state,                  \* retained value of settings/state on the bus
    capability,             \* CAPABILITIES_OBJECT_OPEN is registered for self
    settings_sub,           \* _on_settings is subscribed to 'settings'
    stats_sub,              \* _on_stats is subscribed to 's/stats/value'
    hwOpen,                 \* the driver holds the device open
    regs,                   \* the hardware registers
    cpc,                    \* control thread: position in _open_req/_close_req
    joinT,                  \* _close_req: local t
    nested,                 \* _close_req was called by _open_req
    wpc,                    \* worker threads: position in _run, per slot
    wret,                   \* worker threads: return value of _run, per slot
    hist,                   \* per run: what the worker has done so far
    registered,             \* on_pubsub_register has run
    fwd_subs,               \* per signal: forwarding subscriptions on its data topic
    ctl_transport,          \* transport operations the control thread has made
    statistics_offsets,     \* self._statistics_offsets
    spc,                    \* statistics callback: position in _on_stats
    stats_in,               \* _on_stats: the sample (value) being processed
    first_raw,              \* the first raw sample since the baseline was cleared
    since_open,             \* a sample was republished since the last open
    accum_undo,             \* the bus's undo entry for the last accum_clear
    shadow_offsets,         \* the baseline, had that accum_clear not been called
    fwd_in,                 \* the last signal data delivered by the driver
    fwd_out,                \* the events published on the bus for it
    tm,                     \* a TimeMap of the waveform widget
    tm_out,                 \* the last conversion made with it
    fw_in,                  \* the release and live versions last checked
    retained                \* the bus's retained values of the device settings

vars == <<thread, quit, queue, driver_device_open, firmware_available,
          target_power_app, target_power, current_range, state,
          capability, settings_sub, stats_sub, hwOpen, regs, cpc, joinT, nested,
          wpc, wret, hist, registered, fwd_subs, ctl_transport,
          statistics_offsets, spc, stats_in, first_raw, since_open,
          accum_undo, shadow_offsets, fwd_in, fwd_out, tm, tm_out,
          fw_in, retained>>

setVars == <<target_power_app, target_power, current_range>>
regVars == <<registered, fwd_subs, ctl_transport>>
undoVars == <<accum_undo, shadow_offsets>>
statVars == <<statistics_offsets, spc, stats_in, first_raw, since_open,
              undoVars>>
fwdVars == <<fwd_in, fwd_out>>
tmVars == <<tm, tm_out>>
extVars == <<fwdVars, tmVars, fw_in, retained>>
ctlVars == <<thread, quit, cpc, joinT, nested>>
busVars == <<state, capability, settings_sub>>
hwVars == <<hwOpen, regs, stats_sub>>

\* ------------------------------------------------------------ pure helpers

\* _version_u32_to_str: major.minor.patch, kept as the three numbers.
version_u32_to_str(v) ==
    <<(v \div 16777216) % 256, (v \div 65536) % 256, v % 65536>>

\* Mutant of is_firmware_update_available: one component at the release's
\* version is enough for no update.
is_firmware_update_available_either(rel, ctrl_app_now, fpga_now) ==
    IF ~rel.ok
    THEN FwNull
    ELSE IF ctrl_app_now >= rel.ctrl_app \/ fpga_now >= rel.fpga
         THEN FwNull
         ELSE [update |-> TRUE,
               ctrl_app |-> <<version_u32_to_str(ctrl_app_now),
                              version_u32_to_str(rel.ctrl_app)>>,
               fpga |-> <<version_u32_to_str(fpga_now),
                          version_u32_to_str(rel.fpga)>>]

\* Mutant of is_firmware_update_available: a release that cannot be
\* fetched or parsed counts as an update.
is_firmware_update_available_strict(rel, ctrl_app_now, fpga_now) ==
    IF rel.ok /\ ctrl_app_now >= rel.ctrl_app /\ fpga_now >= rel.fpga
    THEN FwNull
    ELSE [update |-> TRUE,
          ctrl_app |-> <<version_u32_to_str(ctrl_app_now),
                         version_u32_to_str(rel.ctrl_app)>>,
          fpga |-> <<version_u32_to_str(fpga_now),
                     version_u32_to_str(rel.fpga)>>]

\* _is_firmware_update_available, on the release and the two live versions.
is_firmware_update_available(rel, ctrl_app_now, fpga_now) ==
    IF ~rel.ok
    THEN FwNull
    ELSE IF ctrl_app_now >= rel.ctrl_app /\ fpga_now >= rel.fpga
         THEN FwNull
         ELSE [update |-> TRUE,
               ctrl_app |-> <<version_u32_to_str(ctrl_app_now),
                              version_u32_to_str(rel.ctrl_app)>>,
               fpga |-> <<version_u32_to_str(fpga_now),
                          version_u32_to_str(rel.fpga)>>]

\* Bit k of the number n.
Bit(n, k) == (n \div 2^k) % 2

\* The output mask of the device after v is written to its set register
\* (set) or to its clear register: the bits of v are raised or lowered,
\* the other bits of the 8 stay.
RECURSIVE gpo_write(_, _, _, _)
gpo_write(mask, v, set, k) ==
    IF k = 8
    THEN 0
    ELSE 2^k * (IF Bit(v, k) = 1 THEN (IF set THEN 1 ELSE 0) ELSE Bit(mask, k))
         + gpo_write(mask, v, set, k + 1)

\* self._driver_publish(t, v, ...) on the registers r; a write to the set
\* or clear register of the outputs changes the output mask.
driver_publish(r, t, v) ==
    LET w == [r EXCEPT ![t] = v]
    IN  IF t = "s/gpo/+/!set"
        THEN [w EXCEPT !["s/gpo/+/!value"] = gpo_write(@, v, TRUE, 0)]
        ELSE IF t = "s/gpo/+/!clr"
        THEN [w EXCEPT !["s/gpo/+/!value"] = gpo_write(@, v, FALSE, 0)]
        ELSE w

\* bool(value) of a number, as 0 or 1.
Bool(value) == IF value = 0 THEN 0 ELSE 1

\* _GPO_BIT
GpoIds == {"0", "1", "T"}

\* Mutant of GPO_BIT: the outputs 1 and T share a bit.
GPO_BIT_shared(id) ==
    CASE id = "0" -> 1
      [] id = "1" -> 2
      [] id = "T" -> 2

GPO_BIT(id) ==
    CASE id = "0" -> 1
      [] id = "1" -> 2
      [] id = "T" -> 128

\* Mutant of current_range_update: one of the two target powers is enough.
current_range_update_either(r) ==
    IF target_power_app \/ target_power # 0
    THEN IF current_range = -1
         THEN driver_publish(r, "s/i/range/mode", "auto")
         ELSE driver_publish(
                  driver_publish(r, "s/i/range/select", current_range),
                  "s/i/range/mode", "manual")
    ELSE driver_publish(r, "s/i/range/mode", "off")

\* _current_range_update: the registers after the policy has been written.
current_range_update(r) ==
    IF target_power_app /\ target_power # 0
    THEN IF current_range = -1
         THEN driver_publish(r, "s/i/range/mode", "auto")
         ELSE driver_publish(
                  driver_publish(r, "s/i/range/select", current_range),
                  "s/i/range/mode", "manual")
    ELSE driver_publish(r, "s/i/range/mode", "off")

\* A topic is the tuple of its '/'-separated parts.
EndsWithEnable(topic) == Len(topic) >= 2 /\ topic[Len(topic)] = "enable"
StartsWithOut(topic) == Len(topic) >= 2 /\ topic[1] = "out"

Min(a, b) == IF a < b THEN a ELSE b
Max(a, b) == IF a > b THEN a ELSE b

\* Mutant of stats_scnt: the frequency itself is written.
stats_scnt_frequency(value) == value

\* _run_cmd_settings, line 567: scnt = 1_000_000 // value
stats_scnt(value) == STATS_FULL_RATE \div value

\* Mutant of current_range_limits: the pair is not put in order.
current_range_limits_unordered(value) ==
    LET lim == IF value = <<>> THEN <<0, 5>> ELSE value
    IN  <<Min(5, Max(0, lim[1])), Min(5, Max(0, lim[2]))>>

\* _run_cmd_settings, lines 573-581: <<i_min, i_max>> as written to the
\* range registers; None is <<>>.
current_range_limits(value) ==
    LET lim == IF value = <<>> THEN <<0, 5>> ELSE value
        lo == Min(5, Max(0, lim[1]))
        hi == Min(5, Max(0, lim[2]))
    IN  IF lo > hi THEN <<hi, lo>> ELSE <<lo, hi>>

\* _run_cmd_settings raises: a KeyError of _SIGNALS or _GPO_BIT, or the
\* division by a zero statistics_frequency.
run_cmd_settings_raises(topic, value) ==
    IF EndsWithEnable(topic) THEN topic[2] \notin SignalIds
    ELSE IF StartsWithOut(topic) THEN ~(Len(topic) = 2 /\ topic[2] \in GpoIds)
    ELSE IF topic = <<"statistics_frequency">> THEN value = 0
    ELSE FALSE

\* _run_cmd_settings: the registers after a setting that does not raise.
run_cmd_settings(r, topic, value) ==
    IF EndsWithEnable(topic)
        THEN driver_publish(r, SignalCtrl(topic[2]), Bool(value))
    ELSE IF StartsWithOut(topic)
        THEN driver_publish(
                 r,
                 IF Bool(value) = 1 THEN "s/gpo/+/!set" ELSE "s/gpo/+/!clr",
                 GPO_BIT(topic[2]))
    ELSE IF topic = <<"signal_frequency">>
        THEN driver_publish(r, "h/fs", value)
    ELSE IF topic = <<"statistics_frequency">>
        THEN driver_publish(r, "s/stats/scnt", stats_scnt(value))
    ELSE IF topic = <<"target_power">> \/ topic = <<"current_range">>
        THEN current_range_update(r)
    ELSE IF topic = <<"voltage_range">>
        THEN IF value = -1
             THEN driver_publish(r, "s/v/range/mode", "auto")
             ELSE driver_publish(
                      driver_publish(r, "s/v/range/mode", "manual"),
                      "s/v/range/select", value)
    ELSE IF topic = <<"current_range_limits">>
        THEN driver_publish(
                 driver_publish(r, "s/i/range/min",
                                current_range_limits(value)[1]),
                 "s/i/range/max", current_range_limits(value)[2])
    ELSE IF topic = <<"trigger_dir">>
        THEN driver_publish(r, "c/trigger/dir", value)
    ELSE IF topic = <<"gpio_voltage">>
        THEN driver_publish(r, "c/gpio/vref", value)
    ELSE r  \* name (a bus publish), the topics passed over (lines 596-602)
            \* and the unsupported ones (a warning): no register is written

\* A queued command (cmd, args); args of 'settings' is (topic, value).
Cmd(c, topic, value) == [cmd |-> c, topic |-> topic, value |-> value]
CloseCmd == Cmd("close", <<>>, 0)

\* _send_to_thread: self._queue.put((cmd, args), block=False)
queue_put(q, c) == Append(q, c)

\* Mutant of queue_get: the newest command is taken first.
queue_get_lifo(q) ==
    [item |-> q[Len(q)], rest |-> SubSeq(q, 1, Len(q) - 1)]

\* _run, line 668: self._queue.get on a queue that is not empty: the
\* command taken and the queue left.
queue_get(q) == [item |-> Head(q), rest |-> Tail(q)]

\* Mutant of queue_drain: _open_req starts the worker on the queue as it is.
queue_drain_nothing(q) == q

\* _open_req, lines 524-528: get(block=False) until the queue is empty.
queue_drain(q) == <<>>

\* _run_cmd makes a driver publish: its setting is one of those
\* _run_cmd_settings writes to a register.
run_cmd_publishes(c) ==
    \/ c.cmd = "current_range_update"
    \/ /\ c.cmd = "settings"
       /\ \/ EndsWithEnable(c.topic)
          \/ StartsWithOut(c.topic)
          \/ c.topic \in {<<"signal_frequency">>, <<"statistics_frequency">>,
                          <<"target_power">>, <<"current_range">>,
                          <<"voltage_range">>, <<"current_range_limits">>,
                          <<"trigger_dir">>, <<"gpio_voltage">>}

\* _run_cmd raises
run_cmd_raises(c) ==
    c.cmd = "settings" /\ run_cmd_settings_raises(c.topic, c.value)

\* _run_cmd: the registers after a command that does not raise.
run_cmd(r, c) ==
    IF c.cmd = "settings" THEN run_cmd_settings(r, c.topic, c.value)
    ELSE IF c.cmd = "current_range_update" THEN current_range_update(r)
    ELSE r  \* 'close' and the unhandled commands

\* _run_cmd, lines 569-572 and 622-623: the command ends in
\* _current_range_update.
cmd_is_range(c) ==
    \/ c.cmd = "current_range_update"
    \/ c.cmd = "settings" /\ c.topic \in {<<"target_power">>, <<"current_range">>}

\* The values of the settings target_power (a bool, as 0 or 1) and
\* current_range (auto, 10 A, 180 mA of its options).
TargetPowers == {0, 1}
CurrentRanges == {-1, 129, 130}

\* The settings changes the bus delivers to _on_settings.
SettingsChanges ==
    {Cmd("settings", <<"signals", "i", "enable">>, 1),
     Cmd("settings", <<"statistics_frequency">>, 2),
     Cmd("settings", <<"unknown_topic">>, 1),
     Cmd("settings", <<"signals", "x", "enable">>, 1)}

\* The device settings whose retained values are followed on the bus, in
\* the order in which the bus delivers them to a new subscriber.
ReplayOrder == <<<<"statistics_frequency">>, <<"signals", "i", "enable">>>>

ReplayTopics == {ReplayOrder[k] : k \in 1..Len(ReplayOrder)}

\* The values these settings are given.
ReplayValues(t) == IF t = <<"statistics_frequency">> THEN {1, 2} ELSE {0, 1}

\* SETTINGS: the defaults of statistics_frequency and signals/i/enable,
\* which the bus retains from the registration on.
RetainedDefaults ==
    [t \in ReplayTopics |-> IF t = <<"statistics_frequency">> THEN 2 ELSE 1]

\* _open, line 702: the subscription of _on_settings with the flag retain
\* delivers the retained value of each of the settings topics at once, and
\* _on_settings hands each to the queue.
replay(q, topics) ==
    LET sel == SelectSeq(ReplayOrder, LAMBDA t : t \in topics)
    IN  q \o [k \in 1..Len(sel) |-> Cmd("settings", sel[k], retained[sel[k]])]

\* -------------------------------------------------------- firmware check

\* Versions as the device and the release give them: u32 values with the
\* major in bits 31..24, the minor in bits 23..16, the patch below
\* (1.0.0, 1.0.1, 1.1.0, 1.1.1, 0.9.7).
FwVersions == {16777216, 16777217, 16842752, 16842753, 589831}

FwReleases ==
    {ReleaseFail} \cup
    {[ok |-> TRUE, ctrl_app |-> c, fpga |-> f] :
        c \in FwVersions, f \in FwVersions}

\* _is_firmware_update_available is called, with the release the service
\* answers with and the versions the device reports; its return value is
\* assigned to firmware_available (_run, line 658).
firmware_check ==
    /\ \E rel \in FwReleases, ctrl_app_now \in FwVersions,
          fpga_now \in FwVersions :
        /\ fw_in' = <<rel, ctrl_app_now, fpga_now>>
        /\ firmware_available' =
               is_firmware_update_available(rel, ctrl_app_now, fpga_now)
    /\ UNCHANGED <<ctlVars, queue, driver_device_open, setVars, regVars,
                   fwdVars, tmVars, retained, statVars, busVars, hwVars,
                   wpc, wret, hist>>

\* --------------------------------------------------------------- time map

\* time64: one second, millisecond and microsecond in time64 units (30
\* fractional bits).
SECOND == 1073741824
MILLISECOND == (SECOND + 500) \div 1000
MICROSECOND == (SECOND + 500000) \div 1000000

Abs(a) == IF a < 0 THEN 0 - a ELSE a

RECURSIVE Gcd(_, _)
Gcd(a, b) == IF b = 0 THEN a ELSE Gcd(b, a % b)

\* The float a / b, held exactly as a fraction in lowest terms (b > 0).
Float(a, b) ==
    LET g == Gcd(Abs(a), b) IN <<a \div g, b \div g>>

\* a / b rounded to the nearest integer, halves upwards (b > 0).
Round(a, b) == (a \div b) + IF 2 * (a % b) >= b THEN 1 ELSE 0

\* TimeMap(): no update call, zero offset, scale 1. The scale,
\* pixels_per_unit_time, is held as <<numerator, denominator>>.
TimeMapNew ==
    [trel_offset |-> 0, anchor_pixel |-> 0, anchor_time |-> 0,
     scale |-> <<1, 1>>]

\* No conversion was made since the map changed.
NoConversion == <<>>

\* time64_to_pixel: the affine map through the anchor, to an integer pixel.
time64_to_pixel(m, t) ==
    m.anchor_pixel + Round((t - m.anchor_time) * m.scale[1], m.scale[2])

\* Mutant of pixel_to_time64: the anchor pixel is not subtracted.
pixel_to_time64_unanchored(m, p) ==
    m.anchor_time + Round(p * m.scale[2], m.scale[1])

\* pixel_to_time64: the inverse affine map, to an integer time64.
pixel_to_time64(m, p) ==
    m.anchor_time + Round((p - m.anchor_pixel) * m.scale[2], m.scale[1])

\* Mutant of time64_to_trel: the difference is not divided by SECOND.
time64_to_trel_units(m, t) == Float(t - m.trel_offset, 1)

\* time64_to_trel: (t - trel_offset) / SECOND, a float.
time64_to_trel(m, t) == Float(t - m.trel_offset, SECOND)

\* Mutant of trel_to_time64: the offset is not added.
trel_to_time64_no_offset(m, r) == r[1] * (SECOND \div r[2])

\* trel_to_time64: r * SECOND + trel_offset, for an r that is a whole
\* number of time64 units (as every result of time64_to_trel is).
trel_to_time64(m, r) == m.trel_offset + r[1] * (SECOND \div r[2])

\* trel_to_pixel: trel_to_time64, then time64_to_pixel.
trel_to_pixel(m, r) == time64_to_pixel(m, trel_to_time64(m, r))

\* The offsets, anchors and scales a map is given.
TrelOffsets == {0, 1, MILLISECOND}
AnchorPixels == {0, 100}
AnchorTimes == {0, MILLISECOND + 1}
Scales == {<<n, d>> : n \in 1..MaxScale, d \in 1..MaxScale}

\* The time64 values converted: around the anchor, and a second, a
\* millisecond and a microsecond after the offset.
Deltas == {SECOND, MILLISECOND, MICROSECOND}
Spans == (0 - MaxSpan)..MaxSpan
TimeInputs(m) ==
    {m.anchor_time + d : d \in Spans} \cup {m.trel_offset + d : d \in Deltas}
PixelInputs(m) == {m.anchor_pixel + d : d \in Spans}

\* The largest integer the model holds: conversions are made where
\* anchor_pixel + (t - anchor_time) * numerator, rounded, stays below it.
MaxProduct == 2147483647
Fits(m, t) ==
    Abs(t - m.anchor_time)
        <= (MaxProduct - 1 - Abs(m.anchor_pixel)) \div m.scale[1]

\* The trel_offset setter.
tm_set_trel_offset ==
    /\ \E o \in TrelOffsets : tm' = [tm EXCEPT !.trel_offset = o]
    /\ tm_out' = NoConversion

\* update(anchor_pixel, anchor_time, pixels_per_time_unit), with a scale
\* above zero: replaces the anchor and the scale.
tm_update ==
    /\ \E ap \in AnchorPixels, at \in AnchorTimes, sc \in Scales :
        tm' = [tm EXCEPT !.anchor_pixel = ap, !.anchor_time = at,
                          !.scale = sc]
    /\ tm_out' = NoConversion

\* time64_to_pixel(t) and time64_to_trel(t) are called.
tm_convert_time64 ==
    /\ \E t \in TimeInputs(tm) :
        /\ Fits(tm, t)
        /\ tm_out' = <<"time64", t, time64_to_pixel(tm, t),
                       time64_to_trel(tm, t)>>
    /\ UNCHANGED tm

\* pixel_to_time64(p) is called.
tm_convert_pixel ==
    /\ \E p \in PixelInputs(tm) :
        tm_out' = <<"pixel", p, pixel_to_time64(tm, p)>>
    /\ UNCHANGED tm

\* trel_to_time64(r) and trel_to_pixel(r) are called, with r the float of a
\* second, a millisecond, a microsecond or a few time64 units.
tm_convert_trel ==
    /\ \E d \in Deltas \cup Spans :
        LET r == Float(d, SECOND) IN
        /\ Fits(tm, trel_to_time64(tm, r))
        /\ tm_out' = <<"trel", r, trel_to_time64(tm, r), trel_to_pixel(tm, r)>>
    /\ UNCHANGED tm

\* ------------------------------------------------------------------ state

\* Positions of a worker in _run.
Alive == {"start", "config", "pub_open", "fw", "loop", "get", "close", "cap_remove"}
\* "done": _run returned; "crashed": an exception left _run.
Terminated == {"done", "crashed"}

\* What a worker has done in its run: the number of teardowns (_close past
\* its guard), a command was dispatched, the capability was registered, a
\* queue.get was made, the reset was written, open was published, the
\* release could not be fetched or parsed, _open returned 1, the
\* current-range policy was written.
HistInit == [teardowns |-> 0, dispatched |-> FALSE, capAdded |-> FALSE,
             served |-> FALSE, resetSent |-> FALSE, pubOpen |-> FALSE,
             relFailed |-> FALSE, openFailed |-> FALSE, ranged |-> FALSE]

Init ==
    /\ thread = None
    /\ quit = FALSE
    /\ queue = <<>>
    /\ driver_device_open = FALSE
    /\ firmware_available = FwNull
    /\ target_power_app = FALSE
    /\ target_power = 1
    /\ current_range = -1
    /\ state = ST_CLOSED
    /\ capability = FALSE
    /\ settings_sub = FALSE
    /\ stats_sub = FALSE
    /\ hwOpen = FALSE
    /\ regs = RegsRestored
    /\ cpc = "idle"
    /\ joinT = None
    /\ nested = FALSE
    /\ wpc = [i \in Slots |-> "none"]
    /\ wret = [i \in Slots |-> -1]
    /\ hist = [i \in Slots |-> HistInit]
    /\ registered = FALSE
    /\ fwd_subs = [id \in SignalIds |-> 0]
    /\ ctl_transport = {}
    /\ statistics_offsets = NoOffsets
    /\ spc = "idle"
    /\ stats_in = NoSample
    /\ first_raw = NoSample
    /\ since_open = FALSE
    /\ accum_undo = NoUndo
    /\ shadow_offsets = NoOffsets
    /\ fwd_in = NoEvent
    /\ fwd_out = <<>>
    /\ tm = TimeMapNew
    /\ tm_out = NoConversion
    /\ fw_in = NoCheck
    /\ retained = RetainedDefaults

\* ---------------------------------------------------------- control thread

\* threading.Thread(...): a slot no thread object occupies.
FreeSlots == {i \in Slots : wpc[i] = "none"}
NewSlot == CHOOSE i \in FreeSlots : \A j \in FreeSlots : i <= j

\* _open_req, line 520: close first.
open_req_closes_first == thread # None /\ state = ST_CLOSING

\* Mutant of open_req_starts: _open_req starts a worker whatever it holds.
open_req_starts_always == TRUE

\* _open_req, line 522: start a worker.
open_req_starts == thread = None

\* Mutant of close_req_acts: _close_req acts without a thread.
close_req_acts_always(t) == TRUE

\* _close_req, line 538: there is a thread to close.
close_req_acts(t) == t # None

\* Mutant of join_returns: the join does not wait for the thread.
join_returns_at_once(t) == TRUE

\* Mutant of join_returns: the join returns only for a thread whose _run
\* returned.
join_returns_if_returned(t) == wpc[t] = "done"

\* t.join() returns.
join_returns(t) == wpc[t] \in Terminated

\* Mutant of open_req_state: _open_req publishes open itself.
open_req_state_open == ST_OPEN

\* _open_req, line 529: the state _open_req publishes.
open_req_state == ST_OPENING

\* _open_req, lines 523-533: drain the queue, publish opening, clear the
\* quit flag, start the thread.
open_start ==
    /\ FreeSlots # {}
    /\ queue' = queue_drain(queue)
    /\ state' = open_req_state
    /\ quit' = FALSE
    /\ thread' = NewSlot
    /\ wpc' = [wpc EXCEPT ![NewSlot] = "start"]
    /\ wret' = [wret EXCEPT ![NewSlot] = -1]
    /\ hist' = [hist EXCEPT ![NewSlot] = HistInit]
    /\ cpc' = "idle"
    /\ UNCHANGED <<joinT, nested, driver_device_open, firmware_available,
                   setVars, regVars, extVars, statVars, capability, settings_sub, hwVars>>

\* _close_req, lines 536-540: take the thread, publish closing.
close_req_begin(n) ==
    /\ thread' = None
    /\ IF close_req_acts(thread)
       THEN /\ joinT' = thread
            /\ nested' = n
            /\ state' = ST_CLOSING
            /\ cpc' = "put"
       ELSE UNCHANGED <<joinT, nested, state, cpc>>
    /\ UNCHANGED <<quit, queue, driver_device_open, firmware_available,
                   setVars, regVars, extVars, statVars, capability, settings_sub, hwVars, wpc, wret, hist>>

\* Mutant of signal_forward: the data topic is not subscribed.
signal_forward_skipped(n) == n

\* _signal_forward, line 486: one more forwarding subscription on the
\* signal's data topic.
signal_forward(n) == n + 1

\* The retained value of registry/app/settings/target_power when the
\* session registers: target power enabled, as the application starts with.
\* Every later change of it arrives through _on_target_power_app.
AppTargetPowerRetained == {TRUE}

\* on_pubsub_register, on the control thread: the subscription to the
\* application's target_power with 'retain' delivers the retained value to
\* _on_target_power_app at once (which enqueues a current_range_update),
\* then _signal_forward subscribes each signal's data topic on the driver.
on_pubsub_register ==
    /\ ~registered
    /\ registered' = TRUE
    /\ \E value \in AppTargetPowerRetained : target_power_app' = value
    /\ queue' = queue_put(queue, Cmd("current_range_update", <<>>, 0))
    /\ fwd_subs' = [id \in SignalIds |-> signal_forward(fwd_subs[id])]
    /\ ctl_transport' = ctl_transport \cup {"subscribe"}
    /\ UNCHANGED <<ctlVars, driver_device_open, firmware_available,
                   target_power, current_range, extVars, statVars, busVars,
                   hwVars, wpc, wret, hist>>

\* on_setting_state_req(1): _open_req
open_req ==
    /\ cpc = "idle"
    /\ registered
    /\ IF open_req_closes_first
       THEN close_req_begin(TRUE)
       ELSE IF open_req_starts
            THEN open_start
            ELSE UNCHANGED vars

\* on_setting_state_req(0), on_action_finalize: _close_req
close_req ==
    /\ cpc = "idle"
    /\ registered
    /\ close_req_begin(FALSE)

\* Mutant of close_req_put: the close command is not enqueued.
close_req_put_skipped ==
    /\ cpc = "put"
    /\ cpc' = "quit"
    /\ UNCHANGED <<thread, quit, queue, joinT, nested, driver_device_open,
                   firmware_available, setVars, regVars, extVars, statVars, busVars, hwVars, wpc, wret, hist>>

\* _close_req, line 541: self._send_to_thread('close')
close_req_put ==
    /\ cpc = "put"
    /\ queue' = queue_put(queue, CloseCmd)
    /\ cpc' = "quit"
    /\ UNCHANGED <<thread, quit, joinT, nested, driver_device_open,
                   firmware_available, setVars, regVars, extVars, statVars, busVars, hwVars, wpc, wret, hist>>

\* _close_req, line 542: self._quit = True
close_req_quit ==
    /\ cpc = "quit"
    /\ quit' = TRUE
    /\ cpc' = "join"
    /\ UNCHANGED <<thread, queue, joinT, nested, driver_device_open,
                   firmware_available, setVars, regVars, extVars, statVars, busVars, hwVars, wpc, wret, hist>>

\* _close_req, lines 543-545: t.join() returns, publish closed. The thread
\* object is dropped; its slot is free once the thread has terminated.
close_req_join ==
    /\ cpc = "join"
    /\ join_returns(joinT)
    /\ state' = ST_CLOSED
    /\ joinT' = None
    /\ nested' = FALSE
    /\ cpc' = IF nested THEN "reopen" ELSE "idle"
    /\ IF wpc[joinT] \in Terminated
       THEN /\ wpc' = [wpc EXCEPT ![joinT] = "none"]
            /\ wret' = [wret EXCEPT ![joinT] = -1]
            /\ hist' = [hist EXCEPT ![joinT] = HistInit]
       ELSE UNCHANGED <<wpc, wret, hist>>
    /\ UNCHANGED <<thread, quit, queue, driver_device_open, firmware_available,
                   setVars, regVars, extVars, statVars, capability, settings_sub, hwVars>>

\* _open_req, line 522 after the _close_req of line 521 has returned.
open_req_resume ==
    /\ cpc = "reopen"
    /\ IF open_req_starts
       THEN open_start
       ELSE /\ cpc' = "idle"
            /\ UNCHANGED <<thread, quit, queue, joinT, nested, driver_device_open,
                           firmware_available, setVars, regVars, extVars, statVars, busVars, hwVars,
                           wpc, wret, hist>>

\* Mutant of on_settings: the callback applies the setting itself instead
\* of handing it to the worker.
on_settings_direct ==
    /\ cpc = "idle"
    /\ settings_sub
    /\ \E c \in SettingsChanges :
        /\ ~run_cmd_raises(c)
        /\ regs' = run_cmd(regs, c)
        /\ ctl_transport' = ctl_transport \cup {"publish"}
        /\ UNCHANGED <<thread, quit, queue, joinT, nested, cpc,
                       driver_device_open, firmware_available, setVars,
                       registered, fwd_subs, extVars, statVars, busVars, hwOpen,
                       stats_sub, wpc, wret, hist>>

\* _on_settings: a settings change delivered by the bus on the control
\* thread while the callback is subscribed.
on_settings ==
    /\ cpc = "idle"
    /\ settings_sub
    /\ \E c \in SettingsChanges :
        IF thread = None
        THEN UNCHANGED vars
        ELSE /\ Len(queue) < MaxQueue
             /\ queue' = queue_put(queue, c)
             /\ UNCHANGED <<thread, quit, joinT, nested, cpc, driver_device_open,
                            firmware_available, setVars, regVars, extVars, statVars, busVars, hwVars,
                            wpc, wret, hist>>

\* The values of the setting current_range_limits: None, and the pairs of
\* range indices at, inside and outside 0..5.
LimitInputs == {-1, 0, 2, 5, 7}
LimitsChanges ==
    {Cmd("settings", <<"current_range_limits">>, v) :
        v \in {<<>>} \cup (LimitInputs \X LimitInputs)}

\* _on_settings for a change of settings/current_range_limits.
on_settings_limits ==
    /\ cpc = "idle"
    /\ settings_sub
    /\ \E c \in LimitsChanges :
        IF thread = None
        THEN UNCHANGED vars
        ELSE /\ Len(queue) < MaxQueue
             /\ queue' = queue_put(queue, c)
             /\ UNCHANGED <<thread, quit, joinT, nested, cpc, driver_device_open,
                            firmware_available, setVars, regVars, extVars,
                            statVars, busVars, hwVars, wpc, wret, hist>>

\* _on_settings for one of the changes: handed to the worker when there is
\* one.
settings_deliver(changes) ==
    /\ cpc = "idle"
    /\ settings_sub
    /\ \E c \in changes :
        IF thread = None
        THEN UNCHANGED vars
        ELSE /\ Len(queue) < MaxQueue
             /\ queue' = queue_put(queue, c)
             /\ UNCHANGED <<thread, quit, joinT, nested, cpc, driver_device_open,
                            firmware_available, setVars, regVars, extVars,
                            statVars, busVars, hwVars, wpc, wret, hist>>

\* The values of the setting statistics_frequency: its options, and 3,
\* which does not divide the full rate.
FrequencyChanges ==
    {Cmd("settings", <<"statistics_frequency">>, f) :
        f \in {100, 50, 20, 10, 5, 2, 1, 3}}

\* A publish of one of the followed device settings on the bus, on the
\* control thread: the bus retains the value and calls _on_settings when it
\* is subscribed, which hands the change to the worker when the session
\* holds one (lines 750-751).
settings_publish ==
    /\ cpc = "idle"
    /\ registered
    /\ \E t \in ReplayTopics : \E v \in ReplayValues(t) :
        /\ retained' = [retained EXCEPT ![t] = v]
        /\ IF settings_sub /\ thread # None
           THEN /\ Len(queue) < MaxQueue
                /\ queue' = queue_put(queue, Cmd("settings", t, v))
           ELSE UNCHANGED queue
    /\ UNCHANGED <<ctlVars, driver_device_open, firmware_available, setVars,
                   regVars, fwdVars, tmVars, fw_in, statVars, busVars, hwVars,
                   wpc, wret, hist>>

\* The changes of the settings out/0, out/1 and out/T.
OutChanges ==
    {Cmd("settings", <<"out", id>>, v) : id \in GpoIds, v \in {0, 1}}

\* _on_settings for a change of one of the settings out/.
on_settings_out == settings_deliver(OutChanges)

\* _on_settings for a change of settings/statistics_frequency.
on_settings_frequency == settings_deliver(FrequencyChanges)

\* Mutant of on_target_power_app: the new value is stored and the worker
\* is not told.
on_target_power_app_silent ==
    /\ cpc = "idle"
    /\ registered
    /\ \E value \in BOOLEAN : target_power_app' = value
    /\ UNCHANGED <<ctlVars, queue, driver_device_open, firmware_available,
                   target_power, current_range, regVars, extVars, statVars, busVars,
                   hwVars, wpc, wret, hist>>

\* _on_target_power_app, on the control thread: store the value, enqueue a
\* current_range_update (with or without a thread).
on_target_power_app ==
    /\ cpc = "idle"
    /\ registered
    /\ Len(queue) < MaxQueue
    /\ \E value \in BOOLEAN : target_power_app' = value
    /\ queue' = queue_put(queue, Cmd("current_range_update", <<>>, 0))
    /\ UNCHANGED <<ctlVars, driver_device_open, firmware_available,
                   target_power, current_range, regVars, extVars, statVars, busVars,
                   hwVars, wpc, wret, hist>>

\* A change of the setting target_power or current_range on the bus, on
\* the control thread: the setting takes the value, and _on_settings, when
\* it is subscribed and there is a thread, enqueues the change.
on_settings_range ==
    /\ cpc = "idle"
    /\ registered
    /\ \E c \in {Cmd("settings", <<"target_power">>, v) : v \in TargetPowers}
               \cup {Cmd("settings", <<"current_range">>, v) : v \in CurrentRanges} :
        /\ target_power' =
               IF c.topic = <<"target_power">> THEN c.value ELSE target_power
        /\ current_range' =
               IF c.topic = <<"current_range">> THEN c.value ELSE current_range
        /\ IF settings_sub /\ thread # None
           THEN /\ Len(queue) < MaxQueue
                /\ queue' = queue_put(queue, c)
           ELSE UNCHANGED queue
    /\ UNCHANGED <<ctlVars, driver_device_open, firmware_available,
                   target_power_app, regVars, extVars, statVars, busVars, hwVars,
                   wpc, wret, hist>>

\* ----------------------------------------------------------- worker thread

\* Mutant of open_fail_state: a failed open publishes closed.
open_fail_state_closed == ST_CLOSED

\* _open, lines 683-686 and 699-702: the state published when the open fails.
open_fail_state == ST_CLOSING

\* Mutant of fw_update_needed: the result of the check is not looked at.
fw_update_needed_never(fa) == FALSE

\* _run, line 659: the firmware check asks for an update.
fw_update_needed(fa) == fa # FwNull

\* Mutant of close_already_closed: the test of line 708 inverted.
close_already_closed_inverted == driver_device_open

\* _close, line 708: nothing to close.
close_already_closed == ~driver_device_open

\* _run, lines 666-672: leave the serve loop on the quit flag.
loop_quits == quit

\* _run, line 671: the command that leaves the serve loop.
cmd_is_close(c) == c.cmd = "close"

\* Mutant of run_open_failed: the return value of _open is not looked at.
run_open_failed_ignored(rc) == FALSE

\* _run, line 653: if self._open(): return 1
run_open_failed(rc) == rc # 0

\* _run, lines 653-655 with _open, lines 681-686: self._driver.open.
\* The device opens, or the open raises: publish closing, return 1.
run_driver_open(i) ==
    /\ wpc[i] = "start"
    /\ \E ok \in BOOLEAN :
        IF ok
        THEN /\ hwOpen' = TRUE
             /\ regs' = RegsRestored
             /\ wpc' = [wpc EXCEPT ![i] = "config"]
             /\ UNCHANGED <<state, wret, hist>>
        ELSE /\ state' = open_fail_state
             /\ hist' = [hist EXCEPT ![i].openFailed = TRUE]
             /\ IF run_open_failed(1)
                THEN /\ wpc' = [wpc EXCEPT ![i] = "done"]
                     /\ wret' = [wret EXCEPT ![i] = 1]
                ELSE /\ wpc' = [wpc EXCEPT ![i] = "pub_open"]
                     /\ UNCHANGED wret
             /\ UNCHANGED <<hwOpen, regs>>
    /\ UNCHANGED <<ctlVars, queue, driver_device_open, firmware_available,
                   setVars, regVars, extVars, statVars, capability, settings_sub, stats_sub>>

\* _run, lines 653-655 with _open, lines 687-705: the configuration after
\* the driver open. It succeeds (statistics on, both subscriptions made,
\* _driver_device_open set), or a driver call raises: publish closing,
\* return 1, with the statistics register and subscription made or not.
\* The retained values of the settings topics are delivered to _on_settings
\* at its subscription, which drops them when self._thread is None.
run_open_config_of(i, topics) ==
    /\ wpc[i] = "config"
    /\ \E ok \in BOOLEAN, partial \in BOOLEAN :
        IF ok
        THEN /\ regs' = driver_publish(
                            driver_publish(regs, "s/stats/ctrl", 1),
                            "s/dbg/mode", "fpga_dev")
             /\ stats_sub' = TRUE
             /\ settings_sub' = TRUE
             /\ driver_device_open' = TRUE
             /\ IF run_open_failed(0)
                THEN /\ wpc' = [wpc EXCEPT ![i] = "done"]
                     /\ wret' = [wret EXCEPT ![i] = 1]
                ELSE /\ wpc' = [wpc EXCEPT ![i] = "pub_open"]
                     /\ UNCHANGED wret
             /\ since_open' = FALSE
             /\ queue' = IF thread # None THEN replay(queue, topics) ELSE queue
             /\ UNCHANGED <<state, hist>>
        ELSE /\ hist' = [hist EXCEPT ![i].openFailed = TRUE]
             /\ regs' = IF partial
                        THEN driver_publish(regs, "s/stats/ctrl", 1)
                        ELSE regs
             /\ stats_sub' = partial
             /\ state' = open_fail_state
             /\ IF run_open_failed(1)
                THEN /\ wpc' = [wpc EXCEPT ![i] = "done"]
                     /\ wret' = [wret EXCEPT ![i] = 1]
                ELSE /\ wpc' = [wpc EXCEPT ![i] = "pub_open"]
                     /\ UNCHANGED wret
             /\ UNCHANGED <<settings_sub, driver_device_open, since_open,
                            queue>>
    /\ UNCHANGED <<ctlVars, firmware_available, setVars, regVars, extVars,
                   statistics_offsets, spc, stats_in, first_raw, undoVars,
                   capability, hwOpen>>

\* The configuration where no retained value of the settings followed on
\* the bus is delivered.
run_open_config(i) == run_open_config_of(i, {})

\* _run, line 656: publish open.
run_publish_open(i) ==
    /\ wpc[i] = "pub_open"
    /\ state' = ST_OPEN
    /\ wpc' = [wpc EXCEPT ![i] = "fw"]
    /\ hist' = [hist EXCEPT ![i].pubOpen = TRUE]
    /\ UNCHANGED <<ctlVars, queue, driver_device_open, firmware_available,
                   setVars, regVars, extVars, statVars, capability, settings_sub, hwVars, wret>>

\* _run, lines 659-664 on the result fa of the firmware check.
\* An update: write the reset (which may raise), set the quit flag.
\* No update: register the capability.
run_firmware_result(i, rel, fa) ==
    /\ firmware_available' = fa
    /\ IF fw_update_needed(fa)
       THEN /\ \E reset_ok \in BOOLEAN :
                IF reset_ok
                THEN /\ regs' = driver_publish(regs, "h/!reset", "update1")
                     /\ quit' = TRUE
                     /\ wpc' = [wpc EXCEPT ![i] = "loop"]
                     /\ hist' = [hist EXCEPT ![i].resetSent = TRUE,
                                             ![i].relFailed = ~rel.ok]
                ELSE /\ wpc' = [wpc EXCEPT ![i] = "crashed"]
                     /\ hist' = [hist EXCEPT ![i].relFailed = ~rel.ok]
                     /\ UNCHANGED <<regs, quit>>
            /\ UNCHANGED capability
       ELSE /\ capability' = TRUE
            /\ wpc' = [wpc EXCEPT ![i] = "loop"]
            /\ hist' = [hist EXCEPT ![i].capAdded = TRUE,
                                    ![i].relFailed = ~rel.ok]
            /\ UNCHANGED <<regs, quit>>

\* _run, lines 658-664: the firmware check, on the releases rels the
\* release service may answer with. The release is fetched or not; when it
\* is, the two live versions are queried, and a query may raise.
run_firmware_check_of(i, rels) ==
    /\ wpc[i] = "fw"
    /\ \E rel \in rels :
        IF ~rel.ok
        THEN run_firmware_result(i, rel, is_firmware_update_available(rel, 0, 0))
        ELSE \E query_ok \in BOOLEAN :
            IF ~query_ok
            THEN /\ wpc' = [wpc EXCEPT ![i] = "crashed"]
                 /\ UNCHANGED <<firmware_available, regs, quit, capability, hist>>
            ELSE \E ctrl_app_now \in Versions, fpga_now \in Versions :
                run_firmware_result(
                    i, rel,
                    is_firmware_update_available(rel, ctrl_app_now, fpga_now))
    /\ UNCHANGED <<thread, cpc, joinT, nested, queue, driver_device_open,
                   setVars, regVars, extVars, statVars, state, settings_sub, stats_sub, hwOpen, wret>>

run_firmware_check(i) == run_firmware_check_of(i, Releases)

\* _run, line 666: while not self._quit
run_loop_test(i) ==
    /\ wpc[i] = "loop"
    /\ IF loop_quits
       THEN /\ wpc' = [wpc EXCEPT ![i] = "close"]
            /\ UNCHANGED hist
       ELSE /\ wpc' = [wpc EXCEPT ![i] = "get"]
            /\ hist' = [hist EXCEPT ![i].served = TRUE]
    /\ UNCHANGED <<ctlVars, queue, driver_device_open, firmware_available,
                   setVars, regVars, extVars, statVars, busVars, hwVars, wret>>

\* _run, lines 667-673: queue.get(timeout=0.1). Nothing queued: back to
\* the loop test. 'close': leave the loop. Any other command: _run_cmd,
\* which writes the registers or raises (a KeyError or ZeroDivisionError
\* of _run_cmd_settings, or a driver publish that fails); nothing in the
\* loop catches it.
run_loop_get(i) ==
    /\ wpc[i] = "get"
    /\ IF queue = <<>>
       THEN /\ wpc' = [wpc EXCEPT ![i] = "loop"]
            /\ UNCHANGED <<queue, regs, hist>>
       ELSE LET c == queue_get(queue).item IN
            /\ queue' = queue_get(queue).rest
            /\ IF cmd_is_close(c)
               THEN /\ wpc' = [wpc EXCEPT ![i] = "close"]
                    /\ UNCHANGED <<regs, hist>>
               ELSE \E io_ok \in BOOLEAN :
                        IF run_cmd_raises(c) \/ (run_cmd_publishes(c) /\ ~io_ok)
                        THEN /\ wpc' = [wpc EXCEPT ![i] = "crashed"]
                             /\ hist' = [hist EXCEPT ![i].dispatched = TRUE]
                             /\ UNCHANGED regs
                        ELSE /\ wpc' = [wpc EXCEPT ![i] = "loop"]
                             /\ regs' = run_cmd(regs, c)
                             /\ hist' = [hist EXCEPT
                                    ![i].dispatched = TRUE,
                                    ![i].ranged = @ \/ cmd_is_range(c)]
    /\ UNCHANGED <<ctlVars, driver_device_open, firmware_available, setVars, regVars, extVars, statVars,
                   busVars, hwOpen, stats_sub, wret>>

\* _close, lines 716-718: the registers after the cleanup writes, of which
\* the first n were made before one raised (all of them when n = 10).
SignalOrder == <<"i", "v", "p", "r", "0", "1", "2", "3", "T">>

RECURSIVE close_cleanup(_, _, _)
close_cleanup(r, k, n) ==
    IF k > n \/ k > Len(SignalOrder) + 1
    THEN r
    ELSE close_cleanup(
             driver_publish(
                 r,
                 IF k <= Len(SignalOrder)
                 THEN SignalCtrl(SignalOrder[k]) ELSE "s/stats/ctrl",
                 0),
             k + 1, n)

\* _run, line 674 with _close, lines 707-726: the teardown. Every
\* exception of the cleanup and of the driver close is swallowed.
run_close(i) ==
    /\ wpc[i] = "close"
    /\ IF close_already_closed
       THEN UNCHANGED <<settings_sub, state, stats_sub, regs, hwOpen,
                        driver_device_open, hist>>
       ELSE /\ settings_sub' = FALSE
            /\ state' = ST_CLOSING
            /\ stats_sub' = FALSE
            /\ \E n \in 0..(Len(SignalOrder) + 1) :
                   regs' = close_cleanup(regs, 1, n)
            /\ \E closed \in BOOLEAN : hwOpen' = ~closed
            /\ driver_device_open' = FALSE
            /\ hist' = [hist EXCEPT ![i].teardowns = @ + 1]
    /\ wpc' = [wpc EXCEPT ![i] = "cap_remove"]
    /\ UNCHANGED <<ctlVars, queue, firmware_available, setVars, regVars, extVars, statVars, capability, wret>>

\* _run, lines 675-677: remove the capability, return 0.
run_capabilities_remove(i) ==
    /\ wpc[i] = "cap_remove"
    /\ capability' = FALSE
    /\ wpc' = [wpc EXCEPT ![i] = "done"]
    /\ wret' = [wret EXCEPT ![i] = 0]
    /\ UNCHANGED <<ctlVars, queue, driver_device_open, firmware_available,
                   setVars, regVars, extVars, statVars, state, settings_sub, hwVars, hist>>

\* ------------------------------------------------------ statistics thread

\* A statistics value of the driver, as far as _on_stats reads it:
\* <<time.accum_samples.value[-1], accumulators.charge, accumulators.energy>>.
RawSamples ==
    {<<n, c, e>> : n \in 0..MaxRaw, c \in 0..MaxRaw, e \in 0..MaxRaw}

\* first_raw after on_action_accum_clear was given a baseline.
BaseSet == <<-1>>

\* Mutant of stats_captures: every sample is taken as the baseline.
stats_captures_always(offsets) == TRUE

\* _on_stats, line 729: if self._statistics_offsets is None
stats_captures(offsets) == offsets = NoOffsets

\* Mutant of stats_normalize: the baseline is not subtracted.
stats_normalize_raw(value, offsets) == <<offsets[1], value[2], value[3]>>

\* _on_stats, lines 735-737: the republished
\* <<accum_samples.value[0], charge, energy>>.
stats_normalize(value, offsets) ==
    <<offsets[1], value[2] - offsets[2], value[3] - offsets[3]>>

\* _on_stats, lines 729-733, on the thread that delivers the driver's
\* statistics: take the value; with no baseline, the value becomes the
\* baseline.
on_stats_begin ==
    /\ spc = "idle"
    /\ stats_sub /\ hwOpen /\ regs["s/stats/ctrl"] = 1
    /\ \E value \in RawSamples :
        /\ stats_in' = value
        /\ statistics_offsets' =
               IF stats_captures(statistics_offsets)
               THEN value ELSE statistics_offsets
        /\ first_raw' = IF first_raw = NoSample THEN value ELSE first_raw
        /\ shadow_offsets' =
               IF stats_captures(shadow_offsets)
               THEN value ELSE shadow_offsets
    /\ spc' = "read"
    /\ UNCHANGED <<ctlVars, queue, driver_device_open, firmware_available,
                   setVars, regVars, extVars, since_open, accum_undo, busVars, hwVars,
                   wpc, wret, hist>>

\* _on_stats, lines 734-741: the event _on_stats is about to publish on
\* events/statistics/!data, from the value it holds and the baseline it
\* reads.
stats_event == stats_normalize(stats_in, statistics_offsets)

\* _on_stats, lines 734-741: read the baseline (unpacking None raises,
\* and nothing is published), subtract it, publish stats_event.
on_stats_publish ==
    /\ spc = "read"
    /\ spc' = "idle"
    /\ stats_in' = NoSample
    /\ since_open' = (since_open \/ statistics_offsets # NoOffsets)
    /\ UNCHANGED <<ctlVars, queue, driver_device_open, firmware_available,
                   setVars, regVars, extVars, statistics_offsets, first_raw, undoVars,
                   busVars, hwVars, wpc, wret, hist>>

\* The undo entry of the bus is held, or was undone.
UndoIs(tag) == accum_undo # NoUndo /\ accum_undo[1] = tag

\* Mutant of accum_clear: the new baseline is returned.
accum_clear_returns_new(offsets, value) ==
    [offsets |-> value, prev_value |-> value]

\* on_action_accum_clear, lines 765-770: the baseline it leaves (None, or
\* list(value)) and the prev_value it returns.
accum_clear(offsets, value) ==
    [offsets |-> IF value = NoOffsets THEN NoOffsets ELSE value,
     prev_value |-> offsets]

\* on_action_accum_clear on the control thread, with value; undo is the
\* entry the bus holds for it afterwards.
accum_clear_step(value, undo) ==
    /\ cpc = "idle"
    /\ registered
    /\ statistics_offsets' = accum_clear(statistics_offsets, value).offsets
    /\ first_raw' = IF value = NoOffsets THEN NoSample ELSE BaseSet
    /\ accum_undo' = undo
    /\ UNCHANGED <<ctlVars, queue, driver_device_open, firmware_available,
                   setVars, regVars, extVars, spc, stats_in, since_open,
                   busVars, hwVars, wpc, wret, hist>>

\* on_action_accum_clear, on the control thread: None clears the baseline,
\* a value becomes the baseline. The bus keeps no undo entry.
on_action_accum_clear ==
    \E value \in {NoOffsets} \cup RawSamples :
        /\ accum_clear_step(value, NoUndo)
        /\ shadow_offsets' = accum_clear(statistics_offsets, value).offsets

\* actions/!accum_clear published with None while no undo entry is held:
\* the bus keeps the returned (topic, prev_value) as the undo entry.
accum_clear_request ==
    /\ ~UndoIs("held")
    /\ accum_clear_step(NoOffsets,
           <<"held", accum_clear(statistics_offsets, NoOffsets).prev_value>>)
    /\ shadow_offsets' = statistics_offsets

\* Undo of the bus: the undo entry is published, on_action_accum_clear runs
\* with the prev_value it had returned.
accum_clear_undo ==
    /\ UndoIs("held")
    /\ accum_clear_step(accum_undo[2], <<"undone", accum_undo[2]>>)
    /\ UNCHANGED shadow_offsets

\* ------------------------------------------------------ signal forwarding

\* _SIGNALS: name, dtype and units of a signal.
SignalInfo(id) ==
    CASE id = "i" -> [name |-> "current", dtype |-> "f32", units |-> "A"]
      [] id = "v" -> [name |-> "voltage", dtype |-> "f32", units |-> "V"]
      [] id = "p" -> [name |-> "power", dtype |-> "f32", units |-> "W"]
      [] id = "r" -> [name |-> "current range", dtype |-> "u8", units |-> ""]
      [] id = "0" -> [name |-> "gpi[0]", dtype |-> "u1", units |-> ""]
      [] id = "1" -> [name |-> "gpi[1]", dtype |-> "u1", units |-> ""]
      [] id = "2" -> [name |-> "gpi[2]", dtype |-> "u1", units |-> ""]
      [] id = "3" -> [name |-> "gpi[3]", dtype |-> "u1", units |-> ""]
      [] id = "T" -> [name |-> "trigger_in", dtype |-> "u1", units |-> ""]

\* The payloads and UTC stamps of signal data.
FwdPayloads == 0..1

\* The signal data the driver publishes on a data topic, as far as the
\* forwarding callback reads it.
RawEvents ==
    [sample_id : 0..MaxFwd, sample_rate : 1..MaxFwd,
     decimate_factor : 1..MaxFwd, utc : FwdPayloads, data : FwdPayloads]

\* Mutant of signal_forward_fn: the sample index is not decimated.
signal_forward_fn_undecimated(id, value) ==
    [sample_id |-> value.sample_id,
     sample_freq |-> value.sample_rate \div value.decimate_factor,
     utc |-> value.utc,
     field |-> SignalInfo(id).name,
     data |-> value.data,
     dtype |-> SignalInfo(id).dtype,
     units |-> SignalInfo(id).units,
     origin_sample_id |-> value.sample_id,
     orig_sample_freq |-> value.sample_rate,
     orig_decimate_factor |-> value.decimate_factor]

\* _signal_forward_factory, lines 493-507: the event fn builds (without its
\* 'source', the device's info).
signal_forward_fn(id, value) ==
    [sample_id |-> value.sample_id \div value.decimate_factor,
     sample_freq |-> value.sample_rate \div value.decimate_factor,
     utc |-> value.utc,
     field |-> SignalInfo(id).name,
     data |-> value.data,
     dtype |-> SignalInfo(id).dtype,
     units |-> SignalInfo(id).units,
     origin_sample_id |-> value.sample_id,
     orig_sample_freq |-> value.sample_rate,
     orig_decimate_factor |-> value.decimate_factor]

\* The driver publishes signal data on a data topic: every forwarding
\* subscription on it runs fn, which publishes its event on the bus.
on_signal_data ==
    /\ \E id \in SignalIds, value \in RawEvents :
        /\ fwd_subs[id] >= 1
        /\ fwd_in' = <<id, value>>
        /\ fwd_out' = [k \in 1..fwd_subs[id] |-> signal_forward_fn(id, value)]
    /\ UNCHANGED <<ctlVars, queue, driver_device_open, firmware_available,
                   setVars, registered, fwd_subs, ctl_transport, tmVars,
                   fw_in, retained, statVars, busVars, hwVars, wpc, wret, hist>>

\* ---------------------------------------------------------- specification

Next ==
    \/ on_pubsub_register
    \/ open_req
    \/ close_req
    \/ close_req_put
    \/ close_req_quit
    \/ close_req_join
    \/ open_req_resume
    \/ on_settings
    \/ \E i \in Slots :
        \/ run_driver_open(i)
        \/ run_open_config(i)
        \/ run_publish_open(i)
        \/ run_firmware_check(i)
        \/ run_loop_test(i)
        \/ run_loop_get(i)
        \/ run_close(i)
        \/ run_capabilities_remove(i)

Spec == Init /\ [][Next]_vars

\* The session with the statistics of the driver and the accumulator
\* action, where the release image cannot be fetched (the firmware counts
\* as current) and no setting changes.
NextStats ==
    \/ on_pubsub_register
    \/ open_req
    \/ close_req
    \/ close_req_put
    \/ close_req_quit
    \/ close_req_join
    \/ open_req_resume
    \/ on_stats_begin
    \/ on_stats_publish
    \/ on_action_accum_clear
    \/ \E i \in Slots :
        \/ run_driver_open(i)
        \/ run_open_config(i)
        \/ run_publish_open(i)
        \/ run_firmware_check_of(i, {ReleaseFail})
        \/ run_loop_test(i)
        \/ run_loop_get(i)
        \/ run_close(i)
        \/ run_capabilities_remove(i)

SpecStats == Init /\ [][NextStats]_vars

\* The session with the changes of the application's target power and of
\* the settings target_power and current_range, where the release image
\* cannot be fetched (the firmware counts as current).
NextRange ==
    \/ on_pubsub_register
    \/ open_req
    \/ close_req
    \/ close_req_put
    \/ close_req_quit
    \/ close_req_join
    \/ open_req_resume
    \/ on_target_power_app
    \/ on_settings_range
    \/ \E i \in Slots :
        \/ run_driver_open(i)
        \/ run_open_config(i)
        \/ run_publish_open(i)
        \/ run_firmware_check_of(i, {ReleaseFail})
        \/ run_loop_test(i)
        \/ run_loop_get(i)
        \/ run_close(i)
        \/ run_capabilities_remove(i)

SpecRange == Init /\ [][NextRange]_vars

\* The session from its registration to its serve loop (no close is
\* requested), with the statistics of the driver, the accumulator clear the
\* bus keeps an undo entry for, and its undo.
NextAccum ==
    \/ on_pubsub_register
    \/ open_req
    \/ on_stats_begin
    \/ on_stats_publish
    \/ accum_clear_request
    \/ accum_clear_undo
    \/ \E i \in Slots :
        \/ run_driver_open(i)
        \/ run_open_config(i)
        \/ run_publish_open(i)
        \/ run_firmware_check_of(i, {ReleaseFail})
        \/ run_loop_test(i)
        \/ run_loop_get(i)

SpecAccum == Init /\ [][NextAccum]_vars

\* The steps of the worker in slot i, where the release image cannot be
\* fetched.
run(i) ==
    \/ run_driver_open(i)
    \/ run_open_config(i)
    \/ run_publish_open(i)
    \/ run_firmware_check_of(i, {ReleaseFail})
    \/ run_loop_test(i)
    \/ run_loop_get(i)
    \/ run_close(i)
    \/ run_capabilities_remove(i)

\* The session with the changes of the application's target power, which
\* give the worker commands to run.
NextLive ==
    \/ on_pubsub_register
    \/ open_req
    \/ close_req
    \/ close_req_put
    \/ close_req_quit
    \/ close_req_join
    \/ open_req_resume
    \/ on_target_power_app
    \/ \E i \in Slots : run(i)

\* Scheduling: a started thread keeps running (each of its calls returns),
\* and the control thread, once inside _close_req, goes on to its put, its
\* write of the quit flag and its join. Requests and setting changes come
\* when they come.
SpecLive ==
    /\ Init
    /\ [][NextLive]_vars
    /\ \A i \in Slots : WF_vars(run(i))
    /\ WF_vars(close_req_put)
    /\ WF_vars(close_req_quit)
    /\ WF_vars(close_req_join)

\* The session from its registration to its serve loop (no close is
\* requested), with the changes of the setting current_range_limits.
NextLimits ==
    \/ on_pubsub_register
    \/ open_req
    \/ on_settings_limits
    \/ \E i \in Slots :
        \/ run_driver_open(i)
        \/ run_open_config(i)
        \/ run_publish_open(i)
        \/ run_firmware_check_of(i, {ReleaseFail})
        \/ run_loop_test(i)
        \/ run_loop_get(i)

SpecLimits == Init /\ [][NextLimits]_vars

\* The steps of the worker in slot i up to its serve loop, where the
\* release image cannot be fetched.
run_serving(i) ==
    \/ run_driver_open(i)
    \/ run_open_config(i)
    \/ run_publish_open(i)
    \/ run_firmware_check_of(i, {ReleaseFail})
    \/ run_loop_test(i)
    \/ run_loop_get(i)

\* The session from its registration to its serve loop (no close is
\* requested), with the changes of the setting statistics_frequency.
NextFrequency ==
    \/ on_pubsub_register
    \/ open_req
    \/ on_settings_frequency
    \/ \E i \in Slots : run_serving(i)

SpecFrequency == Init /\ [][NextFrequency]_vars

\* The same session with the changes of the settings out/.
NextOut ==
    \/ on_pubsub_register
    \/ open_req
    \/ on_settings_out
    \/ \E i \in Slots : run_serving(i)

SpecOut == Init /\ [][NextOut]_vars

\* The release with the newest versions.
ReleaseNewest == [ok |-> TRUE, ctrl_app |-> MaxVer, fpga |-> MaxVer]

\* The steps of the worker in slot i, where the retained settings are
\* delivered at the subscription and the release cannot be fetched or is
\* the newest.
run_replayed(i) ==
    \/ run_driver_open(i)
    \/ run_open_config_of(i, ReplayTopics)
    \/ run_publish_open(i)
    \/ run_firmware_check_of(i, {ReleaseFail, ReleaseNewest})
    \/ run_loop_test(i)
    \/ run_loop_get(i)
    \/ run_close(i)
    \/ run_capabilities_remove(i)

\* The session with the publishes of the followed device settings.
NextReplay ==
    \/ on_pubsub_register
    \/ open_req
    \/ close_req
    \/ close_req_put
    \/ close_req_quit
    \/ close_req_join
    \/ open_req_resume
    \/ settings_publish
    \/ \E i \in Slots : run_replayed(i)

SpecReplay == Init /\ [][NextReplay]_vars

\* The firmware check on the releases and versions it may meet.
NextFirmware == firmware_check

SpecFirmware == Init /\ [][NextFirmware]_vars

\* A TimeMap: its setter, its update and its conversions.
NextTimeMap ==
    /\ \/ tm_set_trel_offset
       \/ tm_update
       \/ tm_convert_time64
       \/ tm_convert_pixel
       \/ tm_convert_trel
    /\ UNCHANGED <<ctlVars, queue, driver_device_open, firmware_available,
                   setVars, regVars, fwdVars, fw_in, retained, statVars, busVars,
                   hwVars, wpc, wret, hist>>

SpecTimeMap == Init /\ [][NextTimeMap]_vars

\* The registration and the signal data of the driver.
NextForward ==
    \/ on_pubsub_register
    \/ on_signal_data

SpecForward == Init /\ [][NextForward]_vars

\* ------------------------------------------------------------------ claims

AliveSlots == {i \in Slots : wpc[i] \in Alive}

\* The queue q2 is the queue q1 with one command added behind the others.
PutBehind(q1, q2) ==
    Len(q2) = Len(q1) + 1 /\ SubSeq(q2, 1, Len(q1)) = q1

\* A step of the control thread that starts a worker.
StartsWorker == \E i \in Slots : wpc[i] = "none" /\ wpc'[i] = "start"

\* C1: at most one worker thread is alive in every reachable state, and a
\* worker is started only when every earlier thread has terminated and has
\* been joined (no other thread object, alive or dead, exists).
C1_AtMostOneWorker ==
    /\ Cardinality(AliveSlots) <= 1
    /\ \A i \in Slots :
        wpc[i] = "start" => \A j \in Slots \ {i} : wpc[j] = "none"

\* A worker has just been started after an earlier run of the session
\* (which left its firmware check result behind).
C1_Witness ==
    \E i \in Slots :
        /\ wpc[i] = "start"
        /\ thread = i
        /\ firmware_available.update

\* C2: close_request with a worker publishes closing, then enqueues the
\* close command, then sets the quit flag, and returns only when the worker
\* has terminated; closed is published after that, so on return the state
\* is closed, no thread is held and no worker exists.
C2_CloseRequest ==
    [][/\ (cpc = "idle" /\ thread # None /\ close_req)
           => (cpc' = "put" /\ state' = ST_CLOSING)
       /\ (cpc = "put" /\ cpc' # "put")
           => (cpc' = "quit" /\ queue' = Append(queue, CloseCmd))
       /\ (cpc = "quit" /\ cpc' # "quit")
           => (cpc' = "join" /\ quit')
       /\ (cpc = "join" /\ cpc' # "join")
           => /\ wpc[joinT] \in Terminated
              /\ state' = ST_CLOSED
              /\ thread' = None
              /\ \A i \in Slots : wpc'[i] = "none"
      ]_vars

\* close_request has returned from closing a worker that had opened and
\* configured the device.
C2_Witness ==
    /\ cpc = "idle"
    /\ thread = None
    /\ state = ST_CLOSED
    /\ quit
    /\ ~hwOpen
    /\ regs["s/dbg/mode"] = "fpga_dev"

\* C3: once close_request has returned (the control thread is idle and
\* holds no thread) no worker exists, and until the next open_request no
\* step writes a register, opens or closes the hardware, takes a command
\* from the queue, changes the capability or a subscription, or publishes
\* a state.
C3_NoWorkerActivityAfterClose ==
    [][(cpc = "idle" /\ thread = None) =>
        /\ AliveSlots = {}
        /\ \/ /\ UNCHANGED <<hwVars, capability, settings_sub,
                             driver_device_open, firmware_available, state,
                             wpc, wret>>
              /\ queue' = queue \/ PutBehind(queue, queue')
           \/ (open_req /\ StartsWorker)
      ]_vars

\* close_request has returned and the close command it enqueued is still
\* in the queue: nothing consumes it.
C3_Witness ==
    /\ cpc = "idle"
    /\ thread = None
    /\ state = ST_CLOSED
    /\ \E k \in 1..Len(queue) : queue[k] = CloseCmd

\* C4: while the session is opening or open (a thread is held and the state
\* is opening or open), open_request changes nothing and no step starts a
\* worker: two open_requests in a row start at most one worker.
C4_OpenRequestIdempotent ==
    [][(thread # None /\ state \in {ST_OPENING, ST_OPEN}) =>
        /\ ~StartsWorker
        /\ (cpc = "idle" /\ open_req) => UNCHANGED vars
      ]_vars

\* The session is open with its worker serving: a second open_request can
\* be made here.
C4_Witness ==
    /\ cpc = "idle"
    /\ thread # None
    /\ state = ST_OPEN
    /\ wpc[thread] = "get"

\* C5: close_request without a worker is a no-op: nothing is published or
\* enqueued, the quit flag and the queue are unchanged, and the state,
\* which is closed whenever the control thread holds no thread, stays
\* closed.
C5_CloseWithoutWorker ==
    [][(cpc = "idle" /\ thread = None) =>
        /\ state = ST_CLOSED
        /\ close_req => UNCHANGED vars
      ]_vars

\* No worker exists, before any open or after a close that left the quit
\* flag set: close_request can be made here.
C5_Witness ==
    /\ cpc = "idle"
    /\ thread = None
    /\ state = ST_CLOSED
    /\ quit
    /\ AliveSlots = {}

\* Positions of _run before the teardown, and after it.
BeforeTeardown == {"start", "config", "pub_open", "fw", "loop", "get", "close"}

C7_StateClosedAfterFailedOpen ==
    \A i \in Slots : hist[i].openFailed => state = ST_CLOSED

\* C7 as amended: after a failed hardware open the worker has published
\* the transitional state closing, which stays on the bus until a
\* close_request (made by the user or by the next open_request) has joined
\* the worker and published closed; open is not published for the attempt.
C7_StateClosingAfterFailedOpen ==
    \A i \in Slots :
        hist[i].openFailed => (state = ST_CLOSING /\ ~hist[i].pubOpen)

\* The hardware open has failed and nothing has been requested since.
C7_Witness ==
    \E i \in Slots :
        /\ hist[i].openFailed
        /\ wpc[i] = "done"
        /\ thread = i
        /\ cpc = "idle"

\* A worker whose hardware open failed.
FailedOpenInert ==
    \A i \in Slots :
        hist[i].openFailed =>
            /\ wpc[i] = "done"
            /\ wret[i] = 1
            /\ ~hist[i].dispatched
            /\ ~hist[i].served
            /\ ~hist[i].capAdded
            /\ hist[i].teardowns = 0

\* C8: a worker whose hardware open fails returns 1 at once, having
\* dispatched no command, served no queue and registered no capability,
\* and a worker is started by a step of open_request only.
C8_FailedOpenExits ==
    [][/\ FailedOpenInert'
       /\ StartsWorker => (open_req \/ open_req_resume)
      ]_vars

\* The configuration after a successful driver open has failed and the
\* worker has returned 1, with commands waiting in the queue.
C8_Witness ==
    \E i \in Slots :
        /\ hist[i].openFailed
        /\ wret[i] = 1
        /\ hwOpen
        /\ queue # <<>>

\* Positions of _run after the firmware check.
AfterFirmwareCheck(i) ==
    \/ wpc[i] \in {"loop", "get", "close", "cap_remove"}
    \/ (wpc[i] = "done" /\ wret[i] = 0)

\* C9: a worker whose firmware check has found an update has written the
\* reset to update1 and set the quit flag; it never waits on the queue,
\* dispatches no command and registers no capability; a capability is
\* registered only by a run whose check returned null.
C9_FirmwareUpdateExits ==
    \A i \in Slots :
        /\ (AfterFirmwareCheck(i) /\ firmware_available.update)
            => /\ hist[i].resetSent
               /\ regs["h/!reset"] = "update1"
               /\ ~hist[i].served
               /\ ~hist[i].dispatched
               /\ ~hist[i].capAdded
               /\ wpc[i] # "get"
               /\ (wpc[i] = "loop" => quit)
        /\ hist[i].capAdded => firmware_available = FwNull

\* A worker has reset the device into the update mode and returned.
C9_Witness ==
    \E i \in Slots :
        /\ wpc[i] = "done"
        /\ wret[i] = 0
        /\ hist[i].resetSent
        /\ firmware_available.update

\* C10: when the release cannot be fetched or parsed, the firmware check
\* returns null and the step is the one of an up-to-date firmware: the
\* capability is registered, the worker goes to its serve loop, and neither
\* the quit flag nor a register is written.
C10_ReleaseFailureDoesNotBlock ==
    [][\A i \in Slots :
        /\ hist'[i].relFailed
            => /\ hist'[i].capAdded
               /\ ~hist'[i].resetSent
               /\ wpc'[i] # "fw"
        /\ (wpc[i] = "fw" /\ hist'[i].relFailed)
            => /\ firmware_available' = FwNull
               /\ capability'
               /\ wpc'[i] = "loop"
               /\ UNCHANGED <<quit, regs, queue, state>>
      ]_vars

\* The release could not be fetched and the worker is serving its queue.
C10_Witness ==
    \E i \in Slots :
        /\ hist[i].relFailed
        /\ wpc[i] = "get"
        /\ capability
        /\ state = ST_OPEN

\* C11: every transport error is caught at the worker boundary and turned
\* into a state transition: no worker has terminated through an unhandled
\* exception while the published state is open.
C11_NoFaultLeavesOpen ==
    \A i \in Slots : wpc[i] = "crashed" => state # ST_OPEN

\* A settings command whose topic nothing handles: an unknown topic, an
\* enable topic of an unknown signal id, an out/ topic of an unknown output.
MalformedSetting(c) ==
    /\ c.cmd = "settings"
    /\ \/ c.topic = <<"unknown_topic">>
       \/ EndsWithEnable(c.topic) /\ c.topic[2] \notin SignalIds
       \/ StartsWithOut(c.topic) /\ c.topic[2] \notin GpoIds

\* C12: the worker ignores a settings command whose topic is unknown or
\* malformed: taking it from the queue writes no register, leaves the
\* session state alone and takes the worker back to the loop test, where the
\* later commands are served.
C12_MalformedSettingIgnored ==
    [][\A i \in Slots :
        (/\ wpc[i] = "get"
         /\ wpc'[i] # "get"
         /\ queue # <<>>
         /\ MalformedSetting(Head(queue)))
        => (/\ wpc'[i] = "loop"
            /\ regs' = regs
            /\ state' = state
            /\ queue' = Tail(queue))
      ]_vars

\* C13: commands are applied in enqueue order: the queue only changes by a
\* command added behind the ones pending, by the oldest command being taken,
\* or by the drain of _open_req; and the command the worker applies is the
\* oldest one pending.
C13_FifoOrder ==
    [][/\ queue' # queue
           => \/ PutBehind(queue, queue')
              \/ queue # <<>> /\ queue' = Tail(queue)
              \/ StartsWorker /\ queue' = <<>>
       /\ \A i \in Slots :
           (wpc[i] = "get" /\ wpc'[i] # "get" /\ queue # <<>>)
           => /\ queue' = Tail(queue)
              /\ wpc'[i] = "close" <=> Head(queue) = CloseCmd
              /\ wpc'[i] = "loop" => regs' = run_cmd(regs, Head(queue))
      ]_vars

\* The worker has applied the enable of signal i while the
\* statistics_frequency change enqueued behind it is still pending.
C13_Witness ==
    /\ \E i \in Slots : wpc[i] = "loop" /\ hist[i].dispatched
    /\ regs["s/i/ctrl"] = 1
    /\ regs["s/stats/scnt"] = 0
    /\ queue = <<Cmd("settings", <<"statistics_frequency">>, 2)>>

\* C14 as stated: when a worker that a close_request is closing has
\* returned from _run, no command enqueued before that close_request is
\* still pending (only the close command itself may be).
C14_NothingPendingAtExit ==
    (cpc = "join" /\ wpc[joinT] = "done" /\ wret[joinT] = 0)
        => \A k \in 1..Len(queue) : queue[k] = CloseCmd

\* C14: a command still pending when the worker exits is applied by no
\* worker: while no worker is alive no register is written and nothing is
\* taken from the queue, and the open_request that starts the next worker
\* empties the queue in the same step.
C14_PendingDiscardedByNextOpen ==
    [][/\ StartsWorker => queue' = <<>>
       /\ (AliveSlots = {} /\ ~StartsWorker)
           => /\ regs' = regs
              /\ queue' = queue \/ PutBehind(queue, queue')
      ]_vars

\* A worker closed by a close_request has returned while a settings
\* command enqueued before the close_request is still in the queue.
C14_Witness ==
    /\ cpc = "join"
    /\ wpc[joinT] = "done"
    /\ wret[joinT] = 0
    /\ \E k \in 1..Len(queue) : queue[k].cmd = "settings"

\* A step of a worker thread: its position in _run changes.
WorkerStep == \E i \in Slots : wpc[i] \in Alive /\ wpc'[i] # wpc[i]

\* C15 as stated: the control thread makes no transport operation at all.
C15_ControlNeverUsesTransport == ctl_transport = {}

\* C15: the only transport operation of the control thread is the
\* subscription of the signals' data topics at registration; the device
\* open and close, every register write and the statistics subscription
\* change in steps of the worker only, and the forwarding subscriptions
\* change at registration only.
C15_TransportOnWorker ==
    [][/\ ctl_transport' \subseteq {"subscribe"}
       /\ (hwOpen' # hwOpen \/ regs' # regs \/ stats_sub' # stats_sub)
           => WorkerStep
       /\ fwd_subs' # fwd_subs => (~registered /\ registered')
      ]_vars

\* The control thread has registered the session and enqueued a settings
\* command, and the worker has opened the device and written its
\* configuration.
C15_Witness ==
    /\ registered
    /\ ctl_transport = {"subscribe"}
    /\ hwOpen
    /\ regs["s/stats/ctrl"] = 1
    /\ \E k \in 1..Len(queue) : queue[k].cmd = "settings"

\* A step of the statistics callback.
StatsStep == spc' # spc

\* C16 as stated: the statistics baseline and the published session state
\* change only in steps of the worker side (the worker thread or the
\* statistics callback), never in a step of the control thread.
C16_OnlyWorkerWrites ==
    [][(state' # state \/ statistics_offsets' # statistics_offsets)
        => (WorkerStep \/ StatsStep)]_vars

\* C16: the device-open flag changes in steps of the worker only; the
\* statistics baseline changes in the statistics callback or in a step of
\* the control thread (the accumulator action); the published state is
\* written by both threads: open and closing by the worker, opening,
\* closing and closed by the control thread.
C16_WritersOfStateAndBaseline ==
    [][/\ driver_device_open' # driver_device_open => WorkerStep
       /\ statistics_offsets' # statistics_offsets => ~WorkerStep
       /\ state' # state
           => /\ ~StatsStep
              /\ IF WorkerStep
                 THEN state' \in {ST_OPEN, ST_CLOSING}
                 ELSE state' \in {ST_OPENING, ST_CLOSING, ST_CLOSED}
      ]_vars

\* The worker has published open and set the device-open flag, and the
\* control thread has set the baseline through the accumulator action.
C16_Witness ==
    /\ state = ST_OPEN
    /\ driver_device_open
    /\ first_raw = BaseSet
    /\ statistics_offsets # NoOffsets

\* The statistics callback takes a value.
StatsTakes == spc = "idle" /\ spc' = "read"

\* C19: with no clear or set since the baseline was captured, the first
\* sample is republished with charge and energy zero, and every sample
\* (when it is taken, and still when it is published) with charge and
\* energy equal to its raw value minus the raw value of that first sample.
C19_RawMinusBaseline ==
    [][/\ (StatsTakes /\ first_raw = NoSample)
           => (stats_event'[2] = 0 /\ stats_event'[3] = 0)
       /\ (StatsTakes /\ first_raw' \in RawSamples)
           => /\ stats_event'[2] = stats_in'[2] - first_raw'[2]
              /\ stats_event'[3] = stats_in'[3] - first_raw'[3]
       /\ (spc = "read" /\ spc' = "idle" /\ first_raw \in RawSamples)
           => /\ statistics_offsets # NoOffsets
              /\ stats_event[2] = stats_in[2] - first_raw[2]
              /\ stats_event[3] = stats_in[3] - first_raw[3]
      ]_vars

\* A later sample is about to be republished with a charge that is not
\* zero: its raw charge differs from the one of the first sample.
C19_Witness ==
    /\ spc = "read"
    /\ first_raw \in RawSamples
    /\ stats_in # first_raw
    /\ since_open
    /\ stats_event[2] # 0

\* C20: the first statistics sample taken after every successful open
\* (with no baseline set through the accumulator action) is republished
\* with charge and energy zero.
C20_BaselineRecapturedOnOpen ==
    [][(StatsTakes /\ ~since_open /\ first_raw # BaseSet)
        => (stats_event'[2] = 0 /\ stats_event'[3] = 0)]_vars

\* The ranging mode the current-range policy asks for.
PolicyMode ==
    IF ~(target_power_app /\ target_power = 1) THEN "off"
    ELSE IF current_range = -1 THEN "auto"
    ELSE "manual"

\* C17: each evaluation of the current-range policy (a current_range_update
\* command, or a target_power or current_range setting) writes exactly the
\* mode off when the two target powers are not both enabled, whatever the
\* range; else the mode auto when the range is -1; else the range to the
\* select register and the mode manual. No other register changes.
C17_CurrentRangePolicy ==
    [][\A i \in Slots :
        (/\ wpc[i] = "get"
         /\ wpc'[i] = "loop"
         /\ queue # <<>>
         /\ cmd_is_range(Head(queue)))
        => regs' =
            IF ~(target_power_app /\ target_power = 1)
            THEN [regs EXCEPT !["s/i/range/mode"] = "off"]
            ELSE IF current_range = -1
            THEN [regs EXCEPT !["s/i/range/mode"] = "auto"]
            ELSE [regs EXCEPT !["s/i/range/select"] = current_range,
                              !["s/i/range/mode"] = "manual"]
      ]_vars

\* The policy has written off for a manual range, the device's
\* target_power being disabled and the application's enabled.
C17_Witness ==
    /\ \E i \in Slots : wpc[i] = "loop" /\ hist[i].ranged
    /\ queue = <<>>
    /\ target_power_app
    /\ target_power = 0
    /\ current_range = 129
    /\ regs["s/i/range/mode"] = "off"

\* C18: in an open session whose worker has evaluated the policy, once the
\* queue is empty the ranging mode in the hardware is the one the policy
\* gives for the present values of the three settings, and in manual mode
\* the select register holds the present range, whatever the order in
\* which the changes arrived.
C18_RangeConverges ==
    \A i \in Slots :
        (wpc[i] \in {"loop", "get"} /\ hist[i].ranged /\ queue = <<>>)
        => /\ regs["s/i/range/mode"] = PolicyMode
           /\ PolicyMode = "manual"
                  => regs["s/i/range/select"] = current_range

\* The queue has drained after changes of both kinds: the application's
\* target power is off, the device's range is a manual one that was
\* written to the select register while both target powers were on.
C18_Witness ==
    /\ \E i \in Slots : wpc[i] \in {"loop", "get"} /\ hist[i].ranged
    /\ queue = <<>>
    /\ ~target_power_app
    /\ target_power = 1
    /\ current_range = 130
    /\ regs["s/i/range/select"] = 130
    /\ regs["s/i/range/mode"] = "off"

\* The bus takes the undo entry of an accum_clear it published with None.
ClearRequested == ~UndoIs("held") /\ UndoIs("held")'

\* C21: on_action_accum_clear with no value leaves no baseline and returns
\* the baseline in force just before the call; a sample that finds no
\* baseline takes its own raw values as the baseline, so its republished
\* charge and energy are zero.
C21_ClearReturnsPrevious ==
    [][/\ ClearRequested
           => /\ statistics_offsets' = NoOffsets
              /\ accum_undo'[2] = statistics_offsets
       /\ (StatsTakes /\ statistics_offsets = NoOffsets)
           => /\ statistics_offsets' = stats_in'
              /\ stats_event'[2] = 0
              /\ stats_event'[3] = 0]_vars

\* A baseline was cleared and returned, and the next sample, with other raw
\* values, has become the baseline.
C21_Witness ==
    /\ UndoIs("held")
    /\ accum_undo[2] \in RawSamples
    /\ spc = "read"
    /\ statistics_offsets = stats_in
    /\ stats_in # accum_undo[2]

\* C22: after a clear and the restore of the baseline the clear returned, a
\* sample is republished as it would have been had the clear not been
\* called, whatever samples came between the two.
C22_ClearRestoreRoundTrip ==
    [][(StatsTakes /\ UndoIs("undone"))
          => stats_normalize(stats_in', statistics_offsets')
               = stats_normalize(stats_in', shadow_offsets')]_vars

\* C23: each signal's raw data topic carries exactly one forwarding
\* subscription from registration on, and none before, whatever opens and
\* closes have happened.
C23_ForwardedOnce ==
    \A id \in SignalIds : fwd_subs[id] = IF registered THEN 1 ELSE 0

\* A session that was opened and configured, and is closed again, with its
\* subscriptions.
C23_Witness ==
    /\ registered
    /\ state = ST_CLOSED
    /\ thread = None
    /\ regs["s/dbg/mode"] = "fpga_dev"
    /\ \A id \in SignalIds : fwd_subs[id] = 1

\* C24: a raw signal event with sample index s, rate r and decimation
\* d >= 1 is republished once, with sample_id the floor of s / d,
\* sample_freq the floor of r / d, with s, r and d as the original index,
\* rate and decimation, and with the data and the UTC of the raw event.
C24_ForwardedEvent ==
    fwd_in # NoEvent =>
        LET v == fwd_in[2]
            e == fwd_out[1]
            d == v.decimate_factor
        IN  /\ Len(fwd_out) = 1
            /\ e.sample_id * d <= v.sample_id
            /\ v.sample_id < (e.sample_id + 1) * d
            /\ e.sample_freq * d <= v.sample_rate
            /\ v.sample_rate < (e.sample_freq + 1) * d
            /\ e.origin_sample_id = v.sample_id
            /\ e.orig_sample_freq = v.sample_rate
            /\ e.orig_decimate_factor = d
            /\ e.data = v.data
            /\ e.utc = v.utc

\* An event was forwarded whose index and rate the decimation does not
\* divide.
C24_Witness ==
    /\ fwd_in # NoEvent
    /\ fwd_in[2].sample_id = 3
    /\ fwd_in[2].sample_rate = 3
    /\ fwd_in[2].decimate_factor = 2
    /\ fwd_out[1].sample_id = 1
    /\ fwd_out[1].sample_freq = 1

\* The control thread is inside _close_req, between taking the thread and
\* the return of the join.
InCloseReq == cpc \in {"put", "quit", "join"}

\* C25: a _close_req that found a thread returns: the worker sees the
\* close command or the quit flag, or has ended already, and the join
\* completes.
C25_CloseTerminates == InCloseReq ~> ~InCloseReq

\* The join waits for a worker that is serving its queue.
C25_Witness ==
    /\ cpc = "join"
    /\ wpc[joinT] \in {"loop", "get"}
    /\ hist[joinT].served

\* The kind of the last conversion made with the TimeMap.
Converted(kind) == tm_out # NoConversion /\ tm_out[1] = kind

\* C26: a time64 value mapped to its pixel and back, and a pixel mapped to
\* its time64 and back, return to where they started: exactly where the
\* scale loses nothing to the rounding of the first step (at least one
\* pixel per time unit for a time, at most one for a pixel), otherwise to
\* within that rounding; the anchor time maps to the anchor pixel and back.
C26_PixelTimeRoundTrip ==
    LET n == tm.scale[1]
        d == tm.scale[2]
    IN  /\ Converted("time64") =>
            LET t == tm_out[2]
                back == pixel_to_time64(tm, tm_out[3])
            IN  /\ n >= d => back = t
                /\ 2 * n * Abs(back - t) <= n + d
                /\ t = tm.anchor_time =>
                       tm_out[3] = tm.anchor_pixel /\ back = t
        /\ Converted("pixel") =>
            LET q == tm_out[2]
                back == time64_to_pixel(tm, tm_out[3])
            IN  /\ n <= d => back = q
                /\ 2 * d * Abs(back - q) <= n + d
                /\ q = tm.anchor_pixel =>
                       tm_out[3] = tm.anchor_time /\ back = q

\* A pixel off the anchor was mapped to its time64 at two time units per
\* pixel, with the anchors away from zero.
C26_Witness ==
    /\ Converted("pixel")
    /\ tm.scale = <<1, 2>>
    /\ tm.anchor_pixel = 100
    /\ tm.anchor_time = MILLISECOND + 1
    /\ tm_out[2] = 103
    /\ tm_out[3] = MILLISECOND + 7

\* C27: a TimeMap as constructed maps a time64 to the same pixel and a
\* pixel to the same time64; SECOND is 1.0 in relative time, and 1.0 is
\* SECOND both as time64 and as pixel.
C27_IdentityAsConstructed ==
    tm = TimeMapNew =>
        /\ Converted("time64") =>
               /\ tm_out[3] = tm_out[2]
               /\ tm_out[2] = SECOND => tm_out[4] = <<1, 1>>
        /\ Converted("pixel") => tm_out[3] = tm_out[2]
        /\ (Converted("trel") /\ tm_out[2] = <<1, 1>>) =>
               /\ tm_out[3] = SECOND
               /\ tm_out[4] = SECOND

\* 1.0 was converted by a TimeMap as constructed.
C27_Witness ==
    /\ tm = TimeMapNew
    /\ Converted("trel")
    /\ tm_out = <<"trel", <<1, 1>>, SECOND, SECOND>>

\* C28: a time a second, a millisecond or a microsecond after the offset is
\* that many seconds in relative time, and trel_to_time64 takes every
\* relative time back to its time64; trel_to_pixel gives the pixel of the
\* time64 that trel_to_time64 gives; update leaves trel_offset as it was.
C28_OffsetComposition ==
    [][/\ Converted("time64")' =>
              /\ \A delta \in Deltas :
                     tm_out'[2] = tm'.trel_offset + delta
                         => tm_out'[4] = Float(delta, SECOND)
              /\ trel_to_time64(tm', tm_out'[4]) = tm_out'[2]
       /\ Converted("trel")' =>
              /\ tm_out'[4] = time64_to_pixel(tm', tm_out'[3])
              /\ time64_to_trel(tm', tm_out'[3]) = tm_out'[2]
       /\ (\/ tm'.anchor_pixel # tm.anchor_pixel
           \/ tm'.anchor_time # tm.anchor_time
           \/ tm'.scale # tm.scale)
              => tm'.trel_offset = tm.trel_offset]_vars

\* With an offset and an updated map, the time a millisecond after the
\* offset was converted.
C28_Witness ==
    /\ Converted("time64")
    /\ tm.trel_offset = MILLISECOND
    /\ tm.anchor_pixel = 100
    /\ tm_out[2] = 2 * MILLISECOND
    /\ tm_out[4] = Float(MILLISECOND, SECOND)

\* The u32 a version string stands for.
VersionNumber(str) == str[1] * 16777216 + str[2] * 65536 + str[3]

\* C29: with a release image, the firmware check returns null exactly when
\* the live versions of the controller application and of the sensor FPGA
\* are both at least the release's; otherwise it returns, for each of the
\* two, the pair of the current and the available version string.
C29_FirmwareFreshness ==
    (fw_in # NoCheck /\ fw_in[1].ok) =>
        LET rel == fw_in[1]
            ctrl_app_now == fw_in[2]
            fpga_now == fw_in[3]
            fa == firmware_available
        IN  /\ fa = FwNull
                <=> (ctrl_app_now >= rel.ctrl_app /\ fpga_now >= rel.fpga)
            /\ fa # FwNull =>
                /\ VersionNumber(fa.ctrl_app[1]) = ctrl_app_now
                /\ VersionNumber(fa.ctrl_app[2]) = rel.ctrl_app
                /\ VersionNumber(fa.fpga[1]) = fpga_now
                /\ VersionNumber(fa.fpga[2]) = rel.fpga

\* The controller application is newer than the release's, the FPGA is
\* older: an update is reported with both pairs of versions.
C29_Witness ==
    /\ fw_in # NoCheck
    /\ fw_in[1].ok
    /\ fw_in[2] > fw_in[1].ctrl_app
    /\ fw_in[3] < fw_in[1].fpga
    /\ firmware_available.update
    /\ firmware_available.fpga = <<<<0, 9, 7>>, <<1, 1, 0>>>>

\* A range index brought into 0..5.
Clamped(x) == IF x < 0 THEN 0 ELSE IF x > 5 THEN 5 ELSE x

\* The worker in slot i runs a change of current_range_limits to its end.
RunsLimits(i) ==
    /\ wpc[i] = "get"
    /\ wpc'[i] = "loop"
    /\ queue # <<>>
    /\ Head(queue).cmd = "settings"
    /\ Head(queue).topic = <<"current_range_limits">>

\* C30: for a current_range_limits of (i_min, i_max) the range min and max
\* registers are written with the two values brought into 0..5, the
\* smaller one as the min, so that 0 <= min <= max <= 5; for None they are
\* written with 0 and 5.
C30_RangeLimitsClamped ==
    [][\A i \in Slots : RunsLimits(i) =>
          LET value == Head(queue).value
              i_min == regs'["s/i/range/min"]
              i_max == regs'["s/i/range/max"]
          IN  /\ 0 <= i_min /\ i_min <= i_max /\ i_max <= 5
              /\ value = <<>> => (i_min = 0 /\ i_max = 5)
              /\ value # <<>> =>
                     {i_min, i_max} = {Clamped(value[1]), Clamped(value[2])}
      ]_vars

\* A worker has run a change of the limits, and the registers hold (2, 5).
C30_Witness ==
    /\ regs["s/i/range/min"] = 2
    /\ regs["s/i/range/max"] = 5
    /\ \E i \in Slots : wpc[i] = "loop" /\ hist[i].dispatched

\* The worker in slot i runs a queued change of the setting topic to its
\* end.
RunsSetting(i, topic) ==
    /\ wpc[i] = "get"
    /\ wpc'[i] = "loop"
    /\ queue # <<>>
    /\ Head(queue).cmd = "settings"
    /\ Head(queue).topic = topic

\* C31: a statistics_frequency of f is written to the decimation-count
\* register as the floor of 1,000,000 / f; 2 gives 500,000.
C31_StatisticsDecimation ==
    [][\A i \in Slots : RunsSetting(i, <<"statistics_frequency">>) =>
          LET f == Head(queue).value
              scnt == regs'["s/stats/scnt"]
          IN  /\ scnt * f <= 1000000
              /\ 1000000 < (scnt + 1) * f
              /\ f = 2 => scnt = 500000
      ]_vars

\* A worker has run a change of the frequency, and the register holds the
\* count for 3 Hz.
C31_Witness ==
    /\ regs["s/stats/scnt"] = 333333
    /\ \E i \in Slots : wpc[i] = "loop" /\ hist[i].dispatched

\* The position of the bit of an output in the output mask.
OutputBit(id) == CASE id = "0" -> 0 [] id = "1" -> 1 [] id = "T" -> 7

\* The output id is on in the mask.
OutputOn(mask, id) == Bit(mask, OutputBit(id)) = 1

\* C32: an applied out/X writes the bit of X to the set register when
\* true and to the clear register when false; in the output mask the bit
\* of X becomes the applied value, the bits of the other outputs stay, and
\* no other bit is ever on: the mask is that of the last applied values.
C32_OutputMask ==
    [][\A i \in Slots : \A x \in GpoIds : RunsSetting(i, <<"out", x>>) =>
          LET on == Head(queue).value # 0
              mask == regs'["s/gpo/+/!value"]
          IN  /\ regs'[IF on THEN "s/gpo/+/!set" ELSE "s/gpo/+/!clr"]
                     = 2^OutputBit(x)
              /\ regs'[IF on THEN "s/gpo/+/!clr" ELSE "s/gpo/+/!set"]
                     = regs[IF on THEN "s/gpo/+/!clr" ELSE "s/gpo/+/!set"]
              /\ \A id \in GpoIds :
                     OutputOn(mask, id) =
                         IF id = x THEN on
                         ELSE OutputOn(regs["s/gpo/+/!value"], id)
              /\ mask = Bit(mask, 0) + 2 * Bit(mask, 1) + 128 * Bit(mask, 7)
      ]_vars

\* Output 1 was set and cleared again while the outputs 0 and T, set in
\* between, stay on.
C32_Witness ==
    /\ regs["s/gpo/+/!value"] = 129
    /\ regs["s/gpo/+/!clr"] = 2
    /\ \E i \in Slots : wpc[i] = "loop"

\* C33: under every interleaving of _on_stats with on_action_accum_clear,
\* the callback that has passed its null check subtracts a baseline that is
\* not None and publishes its normalized sample.
C33_BaselineAtSubtraction ==
    [][(spc = "read" /\ spc' = "idle") => statistics_offsets # NoOffsets]_vars

\* C34: a transport that a worker opened is closed before that worker
\* terminates, on every path: whenever no worker is alive, the transport is
\* closed.
C34_TransportClosedWithoutWorker ==
    AliveSlots = {} => ~hwOpen

\* The changes of the published state that the life cycle allows.
StateCycle ==
    {<<ST_CLOSED, ST_OPENING>>, <<ST_OPENING, ST_OPEN>>,
     <<ST_OPEN, ST_CLOSING>>, <<ST_CLOSING, ST_CLOSED>>,
     <<ST_OPENING, ST_CLOSING>>}

\* C35: the published state changes only along closed, opening, open,
\* closing, closed, or from opening to closing; in particular open is not
\* published over a closing.
C35_StateCycle ==
    [][state' # state => <<state, state'>> \in StateCycle]_vars

\* The worker in slot i takes the close command from the queue.
TakesClose(i) ==
    /\ wpc[i] = "get"
    /\ wpc'[i] = "close"

\* C36: the open_request that starts a worker leaves the queue empty, so
\* the worker finds nothing that was enqueued before; a worker that takes a
\* close command takes that of the close_request which is waiting for it.
C36_NoStaleCommand ==
    [][/\ StartsWorker => queue' = <<>>
       /\ \A i \in Slots :
              TakesClose(i) => (cpc \in {"quit", "join"} /\ joinT = i)
      ]_vars

\* A close_request has returned and its close command is still queued (the
\* worker left on the quit flag); the next open_request is free to start.
C36_Witness ==
    /\ cpc = "idle"
    /\ thread = None
    /\ state = ST_CLOSED
    /\ registered
    /\ AliveSlots = {}
    /\ \E k \in 1..Len(queue) : queue[k] = CloseCmd

\* C37: the session recovers from a worker that ended without a
\* close_request: whenever no worker is alive, an open_request starts a
\* worker, at once or after it has joined the dead one.
C37_OpenRequestRecovers ==
    (cpc = "idle" /\ registered /\ AliveSlots = {})
        => (open_req_closes_first \/ open_req_starts)

\* C38: the ready capability is registered only while a worker is alive
\* that opened the hardware and found the firmware current; with no worker
\* alive the capability is absent.
C38_CapabilityNeedsWorker ==
    capability =>
        \E i \in AliveSlots :
            /\ hist[i].pubOpen
            /\ hist[i].capAdded
            /\ ~hist[i].resetSent

\* The registers hold the retained value of every followed device setting.
RegistersCurrent ==
    /\ regs["s/stats/scnt"] * retained[<<"statistics_frequency">>] = 1000000
    /\ regs["s/i/ctrl"] = retained[<<"signals", "i", "enable">>]

\* A worker that opened the device with current firmware has nothing left
\* in the queue.
Drained ==
    \E i \in Slots :
        /\ wpc[i] = "loop"
        /\ hist[i].capAdded
        /\ queue = <<>>

\* C39: a change of a device setting made while the session holds no
\* worker leaves the queue as it is, and after a successful open with
\* current firmware the registers hold the current value of every device
\* setting whenever the queue has drained.
C39_SettingsReplayed ==
    [][/\ (retained' # retained /\ thread = None) => queue' = queue
       /\ Drained' => RegistersCurrent'
      ]_vars

====
